---- MODULE Spec2Model ----
(***************************************************************************)
(* Whale tracker: the position/order change-detection state machine of     *)
(* main.py (check_and_alert_positions, check_and_alert_orders,             *)
(* fetch_whale_data, fetch_all_whales, delete_whale, startup_event) and    *)
(* the trade store of database.py (save_open_trade, close_trade,           *)
(* save_liquidation, save_alert_state, load_alert_state).                  *)
(*                                                                         *)
(* Every coroutine is a task with a program counter.  One step of a task   *)
(* is the code between two consecutive awaits: asyncio runs that code      *)
(* without interruption and may switch to any other task at the await.     *)
(* A database statement takes effect at the instant its await resumes.     *)
(* Prices and sizes are integers; every comparison the code makes on a     *)
(* quotient is made here on the cross-multiplied integers, so it is exact. *)
(***************************************************************************)
EXTENDS Integers, Sequences, FiniteSets, TLC

\* ------------------------------------------------------------------ bounds
\* Number of fetch_whale_data / delete_whale calls in one behaviour.
MaxPolls == 3

\* ------------------------------------------------------------- the domain
\* Tracked addresses at start (DEFAULT_WHALES, all of the same length, so
\* that k.startswith(address) selects exactly the keys of that address).
Wallets == {"w1", "w2"}
\* The instruments, in the order the exchange lists them in a snapshot.
CoinOrder == <<"BTC">>
Coins == {CoinOrder[n] : n \in 1..Len(CoinOrder)}

None == <<>>
Some(v) == <<v>>

\* pos_key = f"{address}_{coin}" and order_key = f"{address}_{order_id}"
Key(address, name) == <<address, name>>
KeyAddress(key) == key[1]
\* pos_key.split("_")[1]
KeyName(key) == key[2]

\* Position entries as fetch_whale_data builds them from the exchange's
\* answer (szi, entryPx, positionValue, unrealizedPnl, liquidationPx).
\*   Far   distance 50%,  pnl +10      Near  distance 1.0%, loss 90%
\*   Band  distance 1.5%, loss 50%     Edge  distance 2.0%, loss 90%
\*   NoLiq liquidationPx 0 (missing),  loss 90%
Far == [szi |-> 1, entryPx |-> 190, positionValue |-> 200, unrealizedPnl |-> 10, liquidationPx |-> 100,
        leverage |-> [kind |-> "dict", value |-> <<10>>], numeric |-> TRUE]
Near == [szi |-> 1, entryPx |-> 2000, positionValue |-> 200, unrealizedPnl |-> -1800, liquidationPx |-> 198,
        leverage |-> [kind |-> "dict", value |-> <<10>>], numeric |-> TRUE]
Band == [szi |-> 1, entryPx |-> 400, positionValue |-> 200, unrealizedPnl |-> -200, liquidationPx |-> 197,
        leverage |-> [kind |-> "dict", value |-> <<10>>], numeric |-> TRUE]
Edge == [szi |-> 1, entryPx |-> 2000, positionValue |-> 200, unrealizedPnl |-> -1800, liquidationPx |-> 196,
        leverage |-> [kind |-> "dict", value |-> <<10>>], numeric |-> TRUE]
NoLiq == [szi |-> 1, entryPx |-> 2000, positionValue |-> 200, unrealizedPnl |-> -1800, liquidationPx |-> 0,
        leverage |-> [kind |-> "dict", value |-> <<10>>], numeric |-> TRUE]
Profiles == {Far, Near, Band, Edge, NoLiq}

\* A field of the exchange's answer: a number (or a numeric string), a
\* string that is no number, null, or absent.
Num(n) == [kind |-> "num", val |-> n]
Absent == [kind |-> "absent", val |-> 0]
Null == [kind |-> "null", val |-> 0]
Text == [kind |-> "text", val |-> 0]
\* p.get(name, default)
Get(p, name, default) == IF p[name].kind = "absent" THEN default ELSE p[name]
\* safe_float, line 128-135
safe_float(value, default) == IF value.kind = "num" THEN value.val ELSE default
\* The position entry of line 468-478.  The entry keeps the fields as they
\* came and the code passes them through safe_float wherever it reads them
\* in the diff; here they are kept converted.  leverage is kept as it came:
\* a dict with or without "value", or null.  numeric: float() accepts szi
\* and entryPx (save_open_trade, database.py line 236-238, calls float()).
Entry(p) ==
    [szi |-> safe_float(Get(p, "szi", Num(0)), 0),
     entryPx |-> safe_float(Get(p, "entryPx", Num(0)), 0),
     positionValue |-> safe_float(Get(p, "positionValue", Num(0)), 0),
     unrealizedPnl |-> safe_float(Get(p, "unrealizedPnl", Num(0)), 0),
     liquidationPx |-> safe_float(Get(p, "liquidationPx", Num(0)), 0),
     leverage |-> IF p.leverage.kind = "absent" THEN [kind |-> "dict", value |-> <<>>] ELSE p.leverage,
     numeric |-> Get(p, "szi", Num(0)).kind = "num" /\ Get(p, "entryPx", Num(0)).kind = "num"]
Payload ==
    [szi |-> Num(1), entryPx |-> Num(190), positionValue |-> Num(200), unrealizedPnl |-> Num(10),
     liquidationPx |-> Num(100), leverage |-> [kind |-> "dict", value |-> <<10>>]]
\*   NoLeverage    no "leverage" in the answer
\*   NullLeverage  "leverage": null
\*   NoSize        no "szi", "entryPx" that is not a number
\*   Flat          "szi": "0.0"
NoLeverage == Entry([Payload EXCEPT !.leverage = Absent])
NullLeverage == Entry([Payload EXCEPT !.leverage = Null])
NoSize == Entry([Payload EXCEPT !.szi = Absent, !.entryPx = Text])
Flat == Entry([Payload EXCEPT !.szi = Num(0), !.positionValue = Num(0), !.unrealizedPnl = Num(0)])

\* Order ids as the exchange reports them: a number or a string.  The key
\* is built with str(oid); the comparison at line 403 is on the raw value.
Oids == {[kind |-> "int", val |-> "7"]}
OidStr(oid) == oid.val

\* A wallet's snapshot: its position list and its order list.
SnapshotsOf(profiles, oids) ==
    {[positions |-> p, orders |-> o] : p \in UNION {[cs -> profiles] : cs \in SUBSET Coins}, o \in SUBSET oids}
\* The answers to a fetch: Some(snapshot), or None when the request fails.
Answers(profiles, oids) == {None} \cup {Some(s) : s \in SnapshotsOf(profiles, oids)}

Abs(x) == IF x < 0 THEN -x ELSE x

\* --------------------------------------------------- pure parts of the diff
\* current_px = position_value / abs(szi) if szi != 0 else 0
\* distance_pct = abs((current_px - liquidation_px) / current_px) * 100
\*                if current_px > 0 else 100
\* distance_pct <= 1.0, multiplied through by current_px * abs(szi) / 100:
DistanceAtMost1(p) ==
    IF p.szi # 0 /\ p.positionValue > 0
    THEN 100 * Abs(p.positionValue - p.liquidationPx * Abs(p.szi)) <= p.positionValue
    ELSE FALSE
\* distance_pct > 2.0
DistanceAbove2(p) ==
    IF p.szi # 0 /\ p.positionValue > 0
    THEN 100 * Abs(p.positionValue - p.liquidationPx * Abs(p.szi)) > 2 * p.positionValue
    ELSE TRUE

\* variant: the warning is raised whether or not the key is in the set
EnterRiskAlways(p, warned) == DistanceAtMost1(p)

\* line 267: the warning is raised
EnterRisk(p, warned) == DistanceAtMost1(p) /\ ~warned
\* line 291: the warning is withdrawn
LeaveRisk(p, warned) == DistanceAbove2(p) /\ warned

\* position_value = abs(szi_value) * entry_px
\* loss_pct = unrealized_pnl / position_value * 100 if position_value > 0 else 0
\* loss_pct < -50
LossBelow50(p) ==
    LET position_value == Abs(p.szi) * p.entryPx
    IN  IF position_value > 0 THEN 100 * p.unrealizedPnl < -50 * position_value ELSE FALSE

\* variant: the loss alone decides
IsLiquidationByLoss(was_at_risk, p) == LossBelow50(p)

\* line 314
IsLiquidation(was_at_risk, p) == was_at_risk /\ LossBelow50(p)

\* exit_price = entry_px * (1 + unrealized_pnl / position_value)
\*              if position_value > 0 else entry_px
ExitPrice(p) ==
    LET position_value == Abs(p.szi) * p.entryPx
    IN  IF position_value > 0
        THEN (p.entryPx * (position_value + p.unrealizedPnl)) \div position_value
        ELSE p.entryPx

\* ---------------------------------------------------------------- state
VARIABLES
    KNOWN_WHALES,          \* the tracked addresses
    positions,             \* alert_state["positions"]: pos_key -> position
    orders,                \* alert_state["orders"]: order_key -> order
    liquidation_warnings,  \* alert_state["liquidation_warnings"]
    db_pool,               \* database.db_pool is set (the store is connected)
    trades,                \* table trades, rows in order of insertion
    liquidations,          \* table liquidations
    saved_state,           \* table alert_state, row 'current_alert_state'
    task,                  \* the coroutines started so far, each with its locals
    sent,                  \* the alert handed to telegram_bot in this step
    phase,                 \* history: per key, where its alerts say it is
    ever_warned,           \* history: keys warned about in their current lifetime
    last_seen,             \* history: per key, the position of the last poll holding it
    restarted,             \* the process was restarted
    cache,                 \* cache["whales"]: per address, the entry its last fetch built
    response,              \* the answer to the last metrics or scores request
    telegram,              \* what the Telegram API does with the next request
    scheduler,             \* "running", "shutdown" (scheduler.shutdown()) or "exited"
    jobs                   \* the callers of fetch_all_whales that publish its result

vars == <<KNOWN_WHALES, positions, orders, liquidation_warnings, db_pool, trades,
          liquidations, saved_state, task, sent, phase, ever_warned, last_seen, restarted, cache, response,
          telegram, scheduler, jobs>>

Keys == Wallets \X Coins

\* dict operations
Put(f, k, v) == [x \in DOMAIN f \cup {k} |-> IF x = k THEN v ELSE f[x]]
Pop(f, k) == [x \in DOMAIN f \ {k} |-> f[x]]
Empty == [x \in {} |-> None]

WalletOrder == <<"w1", "w2">>
OidOrder == <<[kind |-> "int", val |-> "7"], [kind |-> "str", val |-> "8"], [kind |-> "str", val |-> "9"]>>

\* the list a snapshot holds, in the exchange's order
PosList(ps) == SelectSeq(CoinOrder, LAMBDA c : c \in DOMAIN ps)
OrdList(os) == SelectSeq(OidOrder, LAMBDA o : o \in os)
\* variant: the stored keys of every address
StoredPositionsAll(ps, address) ==
    SelectSeq([n \in 1..(Len(WalletOrder) * Len(CoinOrder)) |->
                  Key(WalletOrder[((n - 1) \div Len(CoinOrder)) + 1], CoinOrder[((n - 1) % Len(CoinOrder)) + 1])],
              LAMBDA k : k \in DOMAIN ps)

\* list(stored_positions.keys()): the keys of the address (line 295, 298)
StoredPositions(ps, address) ==
    SelectSeq([n \in 1..Len(CoinOrder) |-> Key(address, CoinOrder[n])], LAMBDA k : k \in DOMAIN ps)
\* list(stored_orders.keys()) (line 398, 401)
StoredOrders(os, address) ==
    SelectSeq([n \in 1..Len(OidOrder) |-> Key(address, OidStr(OidOrder[n]))], LAMBDA k : k \in DOMAIN os)

Event(type, key, id) == Some([type |-> type, key |-> key, task |-> id])

\* history: Opened while the alerts already say Open is recorded as OpenedTwice
PhaseAfter(ph, type) ==
    CASE type = "PositionOpened" -> IF ph = "Absent" THEN "Open" ELSE "OpenedTwice"
      [] type \in {"PositionClosed", "PositionLiquidated"} -> IF ph = "OpenedTwice" THEN ph ELSE "Absent"
      [] OTHER -> ph

\* line 308, evaluated after line 302 has discarded the key:
\* was_at_risk = pos_key in alert_state["liquidation_warnings"]
WasAtRisk(pos_key, before_discard, after_discard) == pos_key \in after_discard

NoTask ==
    [id |-> 0, pc |-> "done", address |-> "", origin |-> "", run |-> 0, snap |-> [positions |-> Empty, orders |-> {}],
     i |-> 0, stored |-> <<>>, closed |-> None, warn_copy |-> {}, result |-> "", failed |-> FALSE,
     raised |-> FALSE, undelivered |-> FALSE]

\* variant: the exception is caught nowhere and the coroutine never returns
RaiseUncaught(m) == [m EXCEPT !.tk.pc = "raised", !.tk.result = "error"]

\* An exception leaves check_and_alert_*: fetch_whale_data's except returns
\* the error entry (line 531-538).  A coroutine that has returned keeps no
\* locals, only its result.
Raise(m) == [m EXCEPT !.tk = [NoTask EXCEPT !.result = "error"]]

\* The answers of the Telegram API to sendMessage: status 200, another
\* status, or no answer (the request raises or times out after 10 s).
Telegram == {"200", "500", "timeout"}

\* variant: an alert that is not delivered raises in the caller
send_message_propagates(answer) == IF answer = "200" THEN "sent" ELSE "raised"

\* TelegramBot.send_message, line 168-191: status 200 is logged as sent,
\* another status is logged (line 188) and an exception of the request is
\* caught and logged (line 190); the call returns None in each case.
send_message(answer) ==
    CASE answer = "200" -> "sent"
      [] answer = "500" -> "logged"
      [] OTHER -> "logged"

\* await telegram_bot.send_message(message): the alert is handed over, and
\* an exception of the call would leave the diff as any other does.
\* (undelivered: history, an alert of this call did not reach Telegram.)
Emit(m, type, key) ==
    LET alerted == [m EXCEPT !.sent = Event(type, key, m.tk.id),
                             !.phase = IF key \in DOMAIN @
                                       THEN [@ EXCEPT ![key] = PhaseAfter(@, type)] ELSE @,
                             !.tk.undelivered = @ \/ m.net # "200"]
    IN  IF send_message(m.net) = "raised" THEN Raise(alerted) ELSE alerted

RECURSIVE RunPositions(_), RunClosed(_), RunOrders(_), RunResolved(_)

\* save_alert_state up to its first await (database.py line 159-171): without
\* a pool it returns at once, else the warnings are copied into a list.
SaveStart(m, pc) ==
    IF m.db
    THEN [m EXCEPT !.tk.pc = pc, !.tk.warn_copy = m.warnings]
    ELSE IF pc = "save_pos"
         THEN RunOrders([m EXCEPT !.tk.i = 1])
         ELSE [m EXCEPT !.tk = [NoTask EXCEPT !.result = "ok"]]

\* check_and_alert_positions, line 219-292: the loop over the snapshot's
\* positions from index tk.i up to the next await.  Line 230-231 reads
\* position.get("leverage", {}).get("value", 1): on a null leverage the
\* second get raises AttributeError, after line 225 has stored the key.
RunPositions(m) ==
    LET tk == m.tk
        list == PosList(tk.snap.positions)
    IN  IF tk.i > Len(list)
        THEN RunClosed([m EXCEPT !.tk.i = 1, !.tk.stored = StoredPositions(m.positions, tk.address)])
        ELSE
        LET coin == list[tk.i]
            position == tk.snap.positions[coin]
            pos_key == Key(tk.address, coin)
            warned == pos_key \in m.warnings
            seen == [m EXCEPT !.last_seen = Put(@, pos_key, position)]
        IN  IF pos_key \notin DOMAIN m.positions
            THEN IF position.leverage.kind = "null"
                 THEN Raise([seen EXCEPT !.positions = Put(@, pos_key, position),
                                         !.ever = @ \ {pos_key}])
                 ELSE Emit([seen EXCEPT !.positions = Put(@, pos_key, position),
                                        !.ever = @ \ {pos_key},
                                        !.tk.pc = "open_check"],
                           "PositionOpened", pos_key)
            ELSE IF position.liquidationPx > 0 /\ EnterRisk(position, warned)
            THEN Emit([seen EXCEPT !.warnings = @ \cup {pos_key},
                                   !.ever = @ \cup {pos_key},
                                   !.tk.pc = "pos_resume",
                                   !.tk.i = @ + 1],
                      "PositionAtRisk", pos_key)
            ELSE IF position.liquidationPx > 0 /\ LeaveRisk(position, warned)
            THEN RunPositions([seen EXCEPT !.warnings = @ \ {pos_key}, !.tk.i = @ + 1])
            ELSE RunPositions([seen EXCEPT !.tk.i = @ + 1])

\* check_and_alert_positions, line 298-355: the loop over the stored keys
\* of the address from index tk.i up to the next await.
RunClosed(m) ==
    LET tk == m.tk
    IN  IF tk.i > Len(tk.stored)
        THEN SaveStart(m, "save_pos")
        ELSE
        LET pos_key == tk.stored[tk.i]
            coin == KeyName(pos_key)
        IN  IF coin \in DOMAIN tk.snap.positions
            THEN RunClosed([m EXCEPT !.tk.i = @ + 1])
            ELSE IF pos_key \notin DOMAIN m.positions
            THEN Raise(m)
            ELSE
            LET closed_position == m.positions[pos_key]
                after_discard == m.warnings \ {pos_key}
                was_at_risk == WasAtRisk(pos_key, m.warnings, after_discard)
                is_liquidation == IsLiquidation(was_at_risk, closed_position)
                popped == [m EXCEPT !.positions = Pop(@, pos_key),
                                    !.warnings = after_discard,
                                    !.ever = @ \ {pos_key},
                                    !.tk.closed = Some([key |-> pos_key,
                                                        position |-> closed_position,
                                                        is_liquidation |-> is_liquidation,
                                                        in_set |-> pos_key \in m.warnings,
                                                        ever |-> pos_key \in m.ever,
                                                        last |-> m.last_seen[pos_key]])]
            IN  IF m.db
                THEN [popped EXCEPT !.tk.pc = IF is_liquidation THEN "liq_insert" ELSE "close_update"]
                ELSE Emit([popped EXCEPT !.tk.pc = "close_next"],
                          IF is_liquidation THEN "PositionLiquidated" ELSE "PositionClosed", pos_key)

\* check_and_alert_orders, line 368-395
RunOrders(m) ==
    LET tk == m.tk
        list == OrdList(tk.snap.orders)
    IN  IF tk.i > Len(list)
        THEN RunResolved([m EXCEPT !.tk.i = 1, !.tk.stored = StoredOrders(m.orders, tk.address)])
        ELSE
        LET order == list[tk.i]
            order_key == Key(tk.address, OidStr(order))
        IN  IF order_key \notin DOMAIN m.orders
            THEN Emit([m EXCEPT !.orders = Put(@, order_key, order),
                                !.tk.pc = "ord_resume",
                                !.tk.i = @ + 1],
                      "OrderCreated", order_key)
            ELSE RunOrders([m EXCEPT !.tk.i = @ + 1])

\* check_and_alert_orders, line 401-420: order_id is the string cut from the
\* key, current_order_ids holds the ids as the exchange sent them.
RunResolved(m) ==
    LET tk == m.tk
    IN  IF tk.i > Len(tk.stored)
        THEN SaveStart(m, "save_ord")
        ELSE
        LET order_key == tk.stored[tk.i]
            order_id == [kind |-> "str", val |-> KeyName(order_key)]
        IN  IF order_id \in tk.snap.orders
            THEN RunResolved([m EXCEPT !.tk.i = @ + 1])
            ELSE IF order_key \notin DOMAIN m.orders
            THEN Raise(m)
            ELSE Emit([m EXCEPT !.orders = Pop(@, order_key), !.tk.pc = "res_next"],
                      "OrderResolved", order_key)

\* ------------------------------------------------------------- the store
\* save_open_trade, line 243-250: SELECT id ... status = 'open' LIMIT 1
OpenTradeExists(rows, wallet, token) ==
    \E n \in 1..Len(rows) : rows[n].wallet = wallet /\ rows[n].token = token /\ rows[n].status = "open"

\* save_open_trade, line 257-268: the INSERT
InsertTrade(rows, wallet, position, token) ==
    Append(rows, [wallet |-> wallet, token |-> token, status |-> "open",
                  side |-> IF position.szi > 0 THEN "LONG" ELSE "SHORT", size |-> Abs(position.szi),
                  entry_price |-> position.entryPx, exit_price |-> None, pnl |-> None,
                  close_timestamp |-> None])

\* close_trade, line 281-297: the UPDATE of every open row of the pair
\* (close_timestamp = NOW(): a timestamp is the number of days it lies back.)
UpdateTrades(rows, wallet, token, exit_price, pnl) ==
    [n \in 1..Len(rows) |->
        IF rows[n].wallet = wallet /\ rows[n].token = token /\ rows[n].status = "open"
        THEN [rows[n] EXCEPT !.status = "closed", !.exit_price = Some(exit_price), !.pnl = Some(pnl),
                             !.close_timestamp = Some(0)]
        ELSE rows[n]]

\* ids of the open rows of the pair
OpenTrades(rows, wallet, token) ==
    {n \in 1..Len(rows) : rows[n].wallet = wallet /\ rows[n].token = token /\ rows[n].status = "open"}

\* save_liquidation, line 317-329: the INSERT
\* (by, lifetime: history, the call that inserted the row and the trade rows
\* that were open for the pair at that moment.)
InsertLiquidation(rows, wallet, position, token, loss, by, lifetime) ==
    Append(rows, [wallet |-> wallet, token |-> token,
                  liquidation_price |-> position.liquidationPx, loss_amount |-> loss,
                  by |-> by, lifetime |-> lifetime])

\* save_alert_state, line 164-186: json.dumps runs after the pool's await, on
\* the live dicts and on the list copied from the warnings before it.
DumpState(warn_copy) ==
    Some([positions |-> positions, orders |-> orders, liquidation_warnings |-> warn_copy])

\* ------------------------------------------------------------- the steps
\* (raised: history, a statement of the store raised during this call.)
Mark(m, ok) == [m EXCEPT !.tk.raised = @ \/ (m.db /\ ~ok)]

M(t) ==
    [positions |-> positions, orders |-> orders, warnings |-> liquidation_warnings,
     phase |-> phase, ever |-> ever_warned, last_seen |-> last_seen,
     db |-> db_pool, tk |-> task[t], sent |-> None, net |-> telegram]

Apply(m, t) ==
    /\ positions' = m.positions
    /\ orders' = m.orders
    /\ liquidation_warnings' = m.warnings
    /\ phase' = m.phase
    /\ ever_warned' = m.ever
    /\ last_seen' = m.last_seen
    /\ sent' = m.sent
    /\ task' = [task EXCEPT ![t] = m.tk]

At(t, pc) == t \in 1..Len(task) /\ task[t].pc = pc

InProgress == {t \in 1..Len(task) : task[t].pc # "done"}
\* the runs of fetch_all_whales / fetch_whale_data that have not returned
RunsInProgress == {task[t].run : t \in {u \in InProgress : task[u].origin \in {"startup", "scheduler", "rest"}}}
\* a run is named by the number of its first coroutine
NextRun == Len(task) + 1

\* variant: a failed fetch is diffed as a snapshot without positions or orders
fetch_whale_data_empty(id, address, origin, run, answer) ==
    [NoTask EXCEPT !.id = id, !.address = address, !.origin = origin, !.run = run,
                   !.pc = "positions", !.failed = answer = None,
                   !.snap = IF answer = None THEN [positions |-> Empty, orders |-> {}] ELSE answer[1]]

\* fetch_whale_data, line 439-538, up to its first await after the answer.
\* Status 200: the snapshot is built (line 451-517) and the function awaits
\* calculate_wallet_metrics.  Another status, a timeout or a network
\* exception: the error entry is returned (line 523-538).  The answer does
\* not depend on the state, so it is drawn when the task is created.
\* (failed: history, the fetch of this call failed.)
fetch_whale_data(id, address, origin, run, answer) ==
    IF answer = None
    THEN [NoTask EXCEPT !.address = address, !.origin = origin, !.result = "error", !.failed = TRUE]
    ELSE [NoTask EXCEPT !.id = id, !.address = address, !.origin = origin, !.run = run,
                        !.pc = "positions", !.snap = answer[1]]

Tracked == SelectSeq(WalletOrder, LAMBDA a : a \in KNOWN_WHALES)

UnchangedAlerts == UNCHANGED <<positions, orders, liquidation_warnings, phase, ever_warned, last_seen>>
UnchangedStore == UNCHANGED <<KNOWN_WHALES, db_pool, trades, liquidations, saved_state, restarted, cache, response,
                              telegram, scheduler, jobs>>

\* fetch_all_whales, line 540-547: one fetch_whale_data per tracked address.
\* It is called by the scheduler's job (line 556, 1482; the scheduler runs
\* one instance of a job at a time), by startup_event (line 1497) and by the
\* REST handlers (line 606, 748, 873).
fetch_all_whales(origin, answers) ==
    /\ Len(Tracked) > 0
    /\ Len(task) + Len(Tracked) <= MaxPolls
    /\ origin = "scheduler" => \A t \in InProgress : task[t].origin # "scheduler"
    /\ origin = "startup" => Len(task) = 0
    /\ \E a \in [1..Len(Tracked) -> answers] :
         task' = task \o [n \in 1..Len(Tracked) |->
                             fetch_whale_data(Len(task) + n, Tracked[n], origin, NextRun, a[n])]
    /\ sent' = None
    /\ UnchangedAlerts
    /\ UnchangedStore

\* GET /whales/{address}, line 616-620: fetch_whale_data for any address
get_whale(address, answers) ==
    /\ Len(task) < MaxPolls
    /\ \E a \in answers :
         task' = Append(task, fetch_whale_data(Len(task) + 1, address, "rest", NextRun, a))
    /\ sent' = None
    /\ UnchangedAlerts
    /\ UnchangedStore

\* check_and_alert_positions is entered (line 519)
check_and_alert_positions(t) ==
    /\ At(t, "positions")
    /\ Apply(RunPositions([M(t) EXCEPT !.tk.i = 1]), t)
    /\ UnchangedStore

\* A store function called by the diff returns into the diff; called on its
\* own (origin "store") it returns to its caller.
Returned(m) == [m EXCEPT !.tk = [NoTask EXCEPT !.result = "ok"]]
\* variant: a statement that raised inside save_open_trade ends the diff
AfterOpenTradeRaised(m) ==
    IF m.tk.origin = "store" THEN Returned(m)
    ELSE IF m.tk.raised THEN Raise(m)
    ELSE RunPositions([m EXCEPT !.tk.i = @ + 1])

AfterOpenTrade(m) ==
    IF m.tk.origin = "store" THEN Returned(m) ELSE RunPositions([m EXCEPT !.tk.i = @ + 1])
\* line 355: the alert of the close is sent
AfterClose(m, type) ==
    IF m.tk.origin = "store" THEN Returned(m)
    ELSE Emit([m EXCEPT !.tk.pc = "close_next"], type, m.tk.closed[1].key)

\* save_open_trade after the alert of line 251 was sent: float() of szi and
\* entryPx (a ValueError or TypeError is caught at line 270), then the SELECT
save_open_trade_check(t, oks) ==
    /\ At(t, "open_check")
    /\ \E ok \in oks :
        LET tk == task[t]
            coin == PosList(tk.snap.positions)[tk.i]
        IN  IF db_pool /\ ok /\ tk.snap.positions[coin].numeric /\ ~OpenTradeExists(trades, tk.address, coin)
            THEN /\ task' = [task EXCEPT ![t].pc = "open_insert"]
                 /\ sent' = None
                 /\ UnchangedAlerts
            ELSE Apply(AfterOpenTrade(Mark(M(t), ok)), t)
    /\ UnchangedStore

\* save_open_trade: the INSERT, then the loop of line 219 goes on
save_open_trade_insert(t, oks) ==
    /\ At(t, "open_insert")
    /\ \E ok \in oks :
        LET tk == task[t]
            coin == PosList(tk.snap.positions)[tk.i]
        IN  /\ trades' = IF ok THEN InsertTrade(trades, tk.address, tk.snap.positions[coin], coin) ELSE trades
            /\ Apply(AfterOpenTrade(Mark(M(t), ok)), t)
    /\ UNCHANGED <<KNOWN_WHALES, db_pool, liquidations, saved_state, restarted, cache, response,
                 telegram, scheduler, jobs>>

\* the alert of line 288 was sent, the loop of line 219 goes on
positions_resume(t) ==
    /\ At(t, "pos_resume")
    /\ Apply(RunPositions(M(t)), t)
    /\ UnchangedStore

\* close_trade called at line 353, then the alert of line 355
close_trade(t, oks) ==
    /\ At(t, "close_update")
    /\ \E ok \in oks :
        LET tk == task[t]
            c == tk.closed[1]
        IN  /\ trades' = IF ok
                         THEN UpdateTrades(trades, tk.address, KeyName(c.key), ExitPrice(c.position),
                                           c.position.unrealizedPnl)
                         ELSE trades
            /\ Apply(AfterClose(Mark(M(t), ok), "PositionClosed"), t)
    /\ UNCHANGED <<KNOWN_WHALES, db_pool, liquidations, saved_state, restarted, cache, response,
                 telegram, scheduler, jobs>>

\* save_liquidation called at line 332: the INSERT; when it raises, the
\* function returns (line 336) and the alert of line 355 is sent
save_liquidation_insert(t, oks) ==
    /\ At(t, "liq_insert")
    /\ \E ok \in oks :
        LET tk == task[t]
            c == tk.closed[1]
        IN  IF ok
            THEN /\ liquidations' = InsertLiquidation(liquidations, tk.address, c.position, KeyName(c.key),
                                                      c.position.unrealizedPnl, t,
                                                      OpenTrades(trades, tk.address, KeyName(c.key)))
                 /\ task' = [task EXCEPT ![t].pc = "liq_close"]
                 /\ sent' = None
                 /\ UnchangedAlerts
            ELSE /\ liquidations' = liquidations
                 /\ Apply(AfterClose(Mark(M(t), ok), "PositionLiquidated"), t)
    /\ UNCHANGED <<KNOWN_WHALES, db_pool, trades, saved_state, restarted, cache, response,
                 telegram, scheduler, jobs>>

\* save_liquidation, line 334: close_trade(wallet, token, liquidation_px, loss)
save_liquidation_close(t, oks) ==
    /\ At(t, "liq_close")
    /\ \E ok \in oks :
        LET tk == task[t]
            c == tk.closed[1]
        IN  /\ trades' = IF ok
                         THEN UpdateTrades(trades, tk.address, KeyName(c.key), c.position.liquidationPx,
                                           c.position.unrealizedPnl)
                         ELSE trades
            /\ Apply(AfterClose(Mark(M(t), ok), "PositionLiquidated"), t)
    /\ UNCHANGED <<KNOWN_WHALES, db_pool, liquidations, saved_state, restarted, cache, response,
                 telegram, scheduler, jobs>>

\* the alert of line 355 was sent, the loop of line 298 goes on
closed_resume(t) ==
    /\ At(t, "close_next")
    /\ Apply(RunClosed([M(t) EXCEPT !.tk.i = @ + 1]), t)
    /\ UnchangedStore

\* save_alert_state of line 358 writes; check_and_alert_orders is entered
save_alert_state_positions(t, oks) ==
    /\ At(t, "save_pos")
    /\ \E ok \in oks :
         /\ saved_state' = IF ok THEN DumpState(task[t].warn_copy) ELSE saved_state
         /\ Apply(RunOrders([Mark(M(t), ok) EXCEPT !.tk.i = 1]), t)
    /\ UNCHANGED <<KNOWN_WHALES, db_pool, trades, liquidations, restarted, cache, response,
                 telegram, scheduler, jobs>>

\* the alert of line 395 was sent
orders_resume(t) ==
    /\ At(t, "ord_resume")
    /\ Apply(RunOrders(M(t)), t)
    /\ UnchangedStore

\* the alert of line 420 was sent
resolved_resume(t) ==
    /\ At(t, "res_next")
    /\ Apply(RunResolved([M(t) EXCEPT !.tk.i = @ + 1]), t)
    /\ UnchangedStore

\* save_alert_state of line 423 writes; fetch_whale_data returns whale_data
save_alert_state_orders(t, oks) ==
    /\ At(t, "save_ord")
    /\ \E ok \in oks : saved_state' = IF ok THEN DumpState(task[t].warn_copy) ELSE saved_state
    /\ task' = [task EXCEPT ![t] = [NoTask EXCEPT !.result = "ok"]]
    /\ sent' = None
    /\ UnchangedAlerts
    /\ UNCHANGED <<KNOWN_WHALES, db_pool, trades, liquidations, restarted, cache, response,
                 telegram, scheduler, jobs>>

\* delete_whale, line 665-685, up to the await inside save_alert_state
\* (without a pool save_alert_state returns at once and the handler is done).
\* The address is no longer tracked: its keys' alert history ends here.
delete_whale(address) ==
    /\ address \in KNOWN_WHALES
    /\ db_pool => Len(task) < MaxPolls
    /\ KNOWN_WHALES' = KNOWN_WHALES \ {address}
    /\ LET removed == {k \in DOMAIN positions : KeyAddress(k) = address}
           warnings == liquidation_warnings \ removed
       IN  /\ positions' = [k \in DOMAIN positions \ removed |-> positions[k]]
           /\ liquidation_warnings' = warnings
           /\ ever_warned' = ever_warned \ removed
           /\ phase' = [k \in Keys |-> IF k \in removed THEN "Absent" ELSE phase[k]]
           /\ orders' = [k \in {x \in DOMAIN orders : KeyAddress(x) # address} |-> orders[k]]
           /\ task' = IF db_pool
                      THEN Append(task, [NoTask EXCEPT !.id = Len(task) + 1, !.address = address,
                                                       !.origin = "delete", !.pc = "save_del",
                                                       !.warn_copy = warnings])
                      ELSE task
    /\ sent' = None
    /\ cache' = IF db_pool THEN cache ELSE [cache EXCEPT ![address] = None]
    /\ UNCHANGED <<db_pool, trades, liquidations, saved_state, last_seen, restarted, response,
                 telegram, scheduler, jobs>>

\* delete_whale, line 685-689: save_alert_state writes, then the address
\* leaves the cache
delete_whale_save(t, oks) ==
    /\ At(t, "save_del")
    /\ \E ok \in oks : saved_state' = IF ok THEN DumpState(task[t].warn_copy) ELSE saved_state
    /\ task' = [task EXCEPT ![t] = [NoTask EXCEPT !.result = "ok"]]
    /\ sent' = None
    /\ cache' = [cache EXCEPT ![task[t].address] = None]
    /\ UnchangedAlerts
    /\ UNCHANGED <<KNOWN_WHALES, db_pool, trades, liquidations, restarted, response,
                 telegram, scheduler, jobs>>

\* load_alert_state, database.py line 191-222: the stored row, the list of
\* warnings turned back into a set; None without a pool or without a row.
load_alert_state == IF db_pool THEN saved_state ELSE None

\* The process is stopped and started again: every coroutine is gone, the
\* module-level alert_state is empty (line 152-157) and startup_event, line
\* 1462-1472, updates it with load_alert_state's answer.
startup_event ==
    /\ ~restarted
    /\ Len(task) > 0
    /\ restarted' = TRUE
    /\ task' = [t \in 1..Len(task) |-> IF task[t].pc = "done" THEN task[t] ELSE NoTask]
    /\ IF load_alert_state # None
       THEN /\ positions' = load_alert_state[1].positions
            /\ orders' = load_alert_state[1].orders
            /\ liquidation_warnings' = load_alert_state[1].liquidation_warnings
       ELSE /\ positions' = Empty
            /\ orders' = Empty
            /\ liquidation_warnings' = {}
    /\ sent' = None
    /\ cache' = [address \in Wallets |-> None]
    /\ scheduler' = "running"
    /\ jobs' = <<>>
    /\ UNCHANGED <<KNOWN_WHALES, db_pool, trades, liquidations, saved_state, phase, ever_warned, last_seen, response, telegram>>

\* ------------------------------------------------------ specifications
\* alert_state as the module creates it (line 152-157), no coroutine yet
Constructed ==
    /\ positions = Empty
    /\ orders = Empty
    /\ liquidation_warnings = {}
    /\ trades = <<>>
    /\ liquidations = <<>>
    /\ saved_state = None
    /\ task = <<>>
    /\ sent = None
    /\ phase = [k \in Keys |-> "Absent"]
    /\ ever_warned = {}
    /\ last_seen = Empty
    /\ restarted = FALSE
    /\ cache = [address \in Wallets |-> None]
    /\ response = None
    /\ scheduler = "running"
    /\ jobs = <<>>

Fresh == Constructed /\ telegram = "200"

Boot == KNOWN_WHALES = Wallets /\ Fresh

Init == Boot /\ db_pool = TRUE

\* One step of the diff of task t; oks holds the outcomes of a database
\* statement (TRUE: it is executed, FALSE: it raises inside the store
\* function, which logs and returns).  save_liquidation is not among the
\* steps: line 308 reads the warnings after line 302 has discarded the key,
\* is_liquidation is False in every run and line 332 is never reached.
Step(t, oks) ==
    \/ check_and_alert_positions(t)
    \/ save_open_trade_check(t, oks)
    \/ save_open_trade_insert(t, oks)
    \/ positions_resume(t)
    \/ close_trade(t, oks)
    \/ closed_resume(t)
    \/ save_alert_state_positions(t, oks)
    \/ save_alert_state_orders(t, oks)
    \/ delete_whale_save(t, oks)

\* Spec: the coroutines as asyncio runs them.  The scheduler's job,
\* startup_event's first run and the REST handlers start whenever they are
\* called and interleave at their awaits; the store executes every statement.
Next ==
    \/ \E origin \in {"startup", "scheduler", "rest"} :
         fetch_all_whales(origin, Answers({Near, Far}, {}))
    \/ \E address \in Wallets : get_whale(address, Answers({Near, Far}, {}))
    \/ \E address \in Wallets : delete_whale(address)
    \/ \E t \in 1..MaxPolls : Step(t, {TRUE})

Spec == Init /\ [][Next]_vars

\* SpecRestart: Spec, and the process may be restarted once.
NextRestart == Next \/ startup_event

SpecRestart == Init /\ [][NextRestart]_vars

\* SpecSeq: one coroutine at a time (a run starts when no coroutine is in
\* progress and the fetches of one run are served in order), every position
\* and order the domain holds, with or without a store.
InitSeq == Boot /\ db_pool \in BOOLEAN

NextSeq ==
    \/ /\ InProgress = {}
       /\ \E origin \in {"startup", "scheduler", "rest"} :
            fetch_all_whales(origin, Answers(Profiles, Oids))
    \/ /\ InProgress = {}
       /\ \E address \in Wallets : get_whale(address, Answers(Profiles, Oids))
    \/ /\ InProgress = {}
       /\ \E address \in Wallets : delete_whale(address)
    \/ \E t \in 1..MaxPolls :
         /\ \A u \in InProgress : t <= u
         /\ (Step(t, {TRUE}) \/ orders_resume(t) \/ resolved_resume(t))

SpecSeq == InitSeq /\ [][NextSeq]_vars

\* SpecFields: one coroutine at a time, answers whose fields are missing,
\* null, zero or no numbers.
NextFields ==
    \/ /\ InProgress = {}
       /\ \E origin \in {"startup", "scheduler", "rest"} :
            fetch_all_whales(origin, Answers({Far, NoLeverage, NullLeverage, NoSize, Flat}, Oids))
    \/ /\ InProgress = {}
       /\ \E address \in Wallets :
            get_whale(address, Answers({Far, NoLeverage, NullLeverage, NoSize, Flat}, Oids))
    \/ /\ InProgress = {}
       /\ \E address \in Wallets : delete_whale(address)
    \/ \E t \in 1..MaxPolls :
         /\ \A u \in InProgress : t <= u
         /\ (Step(t, {TRUE}) \/ orders_resume(t) \/ resolved_resume(t))

SpecFields == Init /\ [][NextFields]_vars

\* SpecFault: one coroutine at a time, and a statement of the store may
\* raise inside its function.
NextFault ==
    \/ /\ InProgress = {}
       /\ \E origin \in {"startup", "scheduler", "rest"} :
            fetch_all_whales(origin, Answers({Near, Far}, {}))
    \/ /\ InProgress = {}
       /\ \E address \in Wallets : get_whale(address, Answers({Near, Far}, {}))
    \/ /\ InProgress = {}
       /\ \E address \in Wallets : delete_whale(address)
    \/ \E t \in 1..MaxPolls :
         /\ \A u \in InProgress : t <= u
         /\ Step(t, BOOLEAN)

SpecFault == Init /\ [][NextFault]_vars

\* The Telegram API changes what it does with the next request.
telegram_api(answer) ==
    /\ telegram # answer
    /\ telegram' = answer
    /\ sent' = None
    /\ UnchangedAlerts
    /\ UNCHANGED <<KNOWN_WHALES, db_pool, trades, liquidations, saved_state, task, restarted, cache,
                   response, scheduler, jobs>>

\* SpecOutage: one coroutine at a time, positions and orders; the Telegram
\* API may refuse or drop a request and a statement of the store may raise
\* inside its function.
NextOutage ==
    \/ /\ InProgress = {}
       /\ \E origin \in {"startup", "scheduler", "rest"} :
            fetch_all_whales(origin, Answers({Near, Far}, Oids))
    \/ /\ InProgress = {}
       /\ \E address \in Wallets : get_whale(address, Answers({Near, Far}, Oids))
    \/ \E answer \in Telegram : telegram_api(answer)
    \/ \E t \in 1..MaxPolls :
         /\ \A u \in InProgress : t <= u
         /\ (Step(t, BOOLEAN) \/ orders_resume(t) \/ resolved_resume(t))

SpecOutage == Init /\ [][NextOutage]_vars

\* SpecStore: the trade store on its own.  Its functions are called with any
\* arguments, the calls interleave at their awaits, and a statement may
\* raise inside the function.
StoreCall(wallet, coin, position, pc) ==
    [NoTask EXCEPT !.id = Len(task) + 1, !.address = wallet, !.origin = "store", !.pc = pc, !.i = 1,
                   !.snap = [positions |-> [c \in {coin} |-> position], orders |-> {}],
                   !.closed = Some([key |-> Key(wallet, coin), position |-> position,
                                    is_liquidation |-> pc = "liq_insert", in_set |-> FALSE,
                                    ever |-> FALSE, last |-> position])]

call_store(pc) ==
    /\ Len(task) < MaxPolls
    /\ \E wallet \in Wallets, coin \in Coins, position \in {Near, Far} :
         task' = Append(task, StoreCall(wallet, coin, position, pc))
    /\ sent' = None
    /\ UnchangedAlerts
    /\ UnchangedStore

NextStore ==
    \/ call_store("open_check")
    \/ call_store("close_update")
    \/ call_store("liq_insert")
    \/ \E t \in 1..MaxPolls :
         \/ save_open_trade_check(t, BOOLEAN)
         \/ save_open_trade_insert(t, BOOLEAN)
         \/ close_trade(t, BOOLEAN)
         \/ save_liquidation_insert(t, BOOLEAN)
         \/ save_liquidation_close(t, BOOLEAN)

SpecStore == Init /\ [][NextStore]_vars

\* ------------------------------------------------------------- the metrics
\* Numbers with decimals are kept as integers: a value the code rounds to 2
\* places is its number of hundredths, the score (1 place) its number of
\* tenths.  A timestamp is the number of days it lies back, and NOW() stays
\* where it is.
Min(a, b) == IF a < b THEN a ELSE b
Max(a, b) == IF a > b THEN a ELSE b

\* round(n / d), d > 0, ties to even
RoundHalfEven(n, d) ==
    LET q == n \div d
        r == n - q * d
    IN  IF 2 * r < d THEN q
        ELSE IF 2 * r > d THEN q + 1
        ELSE IF q % 2 = 0 THEN q ELSE q + 1

\* the whole part of x ** 0.5, x >= 0
RECURSIVE ISqrt(_)
ISqrt(x) ==
    IF x < 2 THEN x
    ELSE LET r == 2 * ISqrt(x \div 4)
         IN  IF (r + 1) * (r + 1) <= x THEN r + 1 ELSE r

\* the whole part of x * m / d, x >= 0, d > 0, in two divisions
Scaled(x, m, d) == (x \div d) * m + ((x % d) * m) \div d

\* round((n / d) ** 0.5), n >= 0, d > 0
RoundSqrt(n, d) == (ISqrt((4 * n) \div d) + 1) \div 2

\* sum(f[n] for n in S)
RECURSIVE Sum(_, _)
Sum(f, S) ==
    IF S = {} THEN 0
    ELSE LET n == CHOOSE n \in S : TRUE IN f[n] + Sum(f, S \ {n})

RECURSIVE Product(_, _)
Product(f, S) ==
    IF S = {} THEN 1
    ELSE LET n == CHOOSE n \in S : TRUE IN f[n] * Product(f, S \ {n})

Sides == {"LONG", "SHORT"}

\* FROM trades WHERE status = 'closed' AND pnl IS NOT NULL, of the given
\* wallets and sides
ClosedWithPnl(rows, wallets, sides) ==
    {n \in 1..Len(rows) : /\ rows[n].wallet \in wallets
                          /\ rows[n].side \in sides
                          /\ rows[n].status = "closed"
                          /\ rows[n].pnl # None}

\* AND close_timestamp >= NOW() - INTERVAL '<days> days'
Since(rows, S, days) ==
    {n \in S : rows[n].close_timestamp # None /\ rows[n].close_timestamp[1] <= days}

\* the pnl column (SUM skips a NULL)
Pnl(rows) == [n \in 1..Len(rows) |-> IF rows[n].pnl = None THEN 0 ELSE rows[n].pnl[1]]

\* wins / total * 100 if total > 0, rounded to 2 places; empty is the value
\* when total is 0 (None per wallet, 0.0 in the global function)
WinRateNoLoss(rows, wallets, sides, empty) ==
    LET S == ClosedWithPnl(rows, wallets, sides)
        total == Cardinality(S)
        wins == Cardinality({n \in S : rows[n].pnl[1] >= 0})
    IN  IF total > 0 THEN Some(RoundHalfEven(10000 * wins, total)) ELSE empty

WinRate(rows, wallets, sides, empty) ==
    LET S == ClosedWithPnl(rows, wallets, sides)
        total == Cardinality(S)
        wins == Cardinality({n \in S : rows[n].pnl[1] > 0})
    IN  IF total > 0 THEN Some(RoundHalfEven(10000 * wins, total)) ELSE empty

\* (avg_return / std_dev) if std_dev > 0 else 0.0, rounded to 2 places.
\* With s the sum and q the sum of the squares of the n values,
\* avg_return / std_dev = s / sqrt(n * q - s * s).
Sharpe(f, S) ==
    LET n == Cardinality(S)
        s == Sum(f, S)
        q == Sum([k \in DOMAIN f |-> f[k] * f[k]], S)
        D == n * q - s * s
    IN  IF D > 0 THEN (IF s < 0 THEN -1 ELSE 1) * RoundSqrt(10000 * s * s, D) ELSE 0

\* float(leverage_data.get("value", 1)) if isinstance(leverage_data, dict)
\* else 1.0
LeverageOf(pos) ==
    IF pos.leverage.kind = "dict" /\ pos.leverage.value # None THEN pos.leverage.value[1] ELSE 1

\* calculate_wallet_metrics, line 444-459 and 478: None without positions,
\* else total_margin_used / total_position_value * 100 (0.0 when the total
\* is 0), rounded to 2 places.  The margins are summed over the common
\* denominator L of the leverages.
portfolio_heat_unlevered(current_positions) ==
    IF current_positions = <<>> THEN None
    ELSE LET I == 1..Len(current_positions)
             total_position_value == Sum([i \in I |-> Abs(current_positions[i].positionValue)], I)
         IN  IF total_position_value > 0 THEN Some(10000) ELSE Some(0)

portfolio_heat(current_positions) ==
    IF current_positions = <<>> THEN None
    ELSE LET I == 1..Len(current_positions)
             position_value == [i \in I |-> Abs(current_positions[i].positionValue)]
             leverage == [i \in I |-> LeverageOf(current_positions[i])]
             L == Product([i \in I |-> IF leverage[i] > 0 THEN leverage[i] ELSE 1], I)
             margin == [i \in I |-> IF leverage[i] > 0
                                    THEN position_value[i] * (L \div leverage[i])
                                    ELSE position_value[i] * L]
             total_position_value == Sum(position_value, I)
         IN  IF total_position_value > 0
             THEN Some(RoundHalfEven(10000 * Sum(margin, I), L * total_position_value))
             ELSE Some(0)

\* calculate_wallet_metrics, line 371-382: the answer without a pool
\* (error: the answer carries the key "error")
NoMetrics ==
    [win_rate_global |-> None, win_rate_long |-> None, win_rate_short |-> None,
     sharpe_ratio |-> None, portfolio_heat |-> None, total_trades |-> 0, error |-> FALSE]

\* calculate_wallet_metrics(wallet, current_positions); ok: no statement
\* raises.  (The liquidation counts of line 461-477 are left out: the
\* liquidation rows carry no timestamp here.)
calculate_wallet_metrics(wallet, current_positions, ok) ==
    IF ~db_pool THEN NoMetrics
    ELSE IF ~ok THEN [NoMetrics EXCEPT !.error = TRUE]
    ELSE LET S == ClosedWithPnl(trades, {wallet}, Sides)
             sharpe_results == Since(trades, S, 30)
         IN  [win_rate_global |-> WinRate(trades, {wallet}, Sides, None),
              win_rate_long |-> WinRate(trades, {wallet}, {"LONG"}, None),
              win_rate_short |-> WinRate(trades, {wallet}, {"SHORT"}, None),
              sharpe_ratio |-> IF Cardinality(sharpe_results) >= 30
                               THEN Some(Sharpe(Pnl(trades), sharpe_results))
                               ELSE None,
              portfolio_heat |-> portfolio_heat(current_positions),
              total_trades |-> Cardinality(S),
              error |-> FALSE]


\* ------------------------------------------------------------- the scores
\* get_whale_intelligence_scores, line 893-911: the pnl of the closed trades
\* of the address (LIMIT 100: a table here holds fewer); with 5 or more,
\* 100 - min(100, std_dev / avg_abs_pnl * 100) if avg_abs_pnl > 0 else 50,
\* and 50 with fewer.  std_dev / avg_abs_pnl = sqrt(D) / a, with D =
\* n * q - s * s and a the sum of the absolute values; in hundredths (the
\* code keeps the float).
Consistency(rows, address) ==
    LET S == {n \in 1..Len(rows) : rows[n].wallet = address /\ rows[n].status = "closed"}
        f == Pnl(rows)
        n == Cardinality(S)
        s == Sum(f, S)
        q == Sum([k \in DOMAIN f |-> f[k] * f[k]], S)
        a == Sum([k \in DOMAIN f |-> Abs(f[k])], S)
        D == n * q - s * s
    IN  IF n >= 5
        THEN IF a > 0
             THEN IF D >= a * a THEN 0
                  ELSE 10000 - (ISqrt(Scaled(40000 * D, 10000, a * a)) + 1) \div 2
             ELSE 5000
        ELSE 5000

\* line 924-931: COALESCE(SUM(pnl), 0) of the rows of the address closed in
\* the last 7 days
RecentPnl(rows, address) ==
    Sum(Pnl(rows), {n \in 1..Len(rows) : /\ rows[n].wallet = address
                                         /\ rows[n].close_timestamp # None
                                         /\ rows[n].close_timestamp[1] <= 7})

\* line 935-941, in units of 1/2000:
\*   win_rate * 0.30                  win_rate in hundredths    -> 6 * win_rate
\*   min(100, sharpe * 25) * 0.25     sharpe in hundredths      -> 125 * min(400, sharpe)
\*   consistency * 0.20               consistency in hundredths -> 4 * consistency
\*   volume_score * 0.15                                        -> 300 * volume_score
\*   min(100, max(0, 50 + recent_pnl / 10000 * 50)) * 0.10      -> min(20000, max(0, 10000 + recent_pnl))
intelligence_score_flat(win_rate, sharpe, consistency, volume_score, recent_pnl) ==
    125 * Min(400, sharpe) + 4 * consistency + 300 * volume_score
        + Min(20000, Max(0, 10000 + recent_pnl))

intelligence_score(win_rate, sharpe, consistency, volume_score, recent_pnl) ==
    6 * win_rate + 125 * Min(400, sharpe) + 4 * consistency + 300 * volume_score
        + Min(20000, Max(0, 10000 + recent_pnl))

\* line 944-958, on the score before it is rounded
Tier(score) ==
    IF score >= 85 * 2000 THEN [stars |-> 5, tier |-> "S-Tier"]
    ELSE IF score >= 75 * 2000 THEN [stars |-> 4, tier |-> "A-Tier"]
    ELSE IF score >= 65 * 2000 THEN [stars |-> 3, tier |-> "B-Tier"]
    ELSE IF score >= 50 * 2000 THEN [stars |-> 2, tier |-> "C-Tier"]
    ELSE [stars |-> 1, tier |-> "D-Tier"]

\* x or 0, of metrics.get(name, 0)
OrZero(x) == IF x = None THEN 0 ELSE x[1]

\* line 881-973: the row of one whale of the list.  The metrics carry no
\* "total_pnl", so that metrics.get("total_pnl", 0) is 0.
\* (exact: history, the score before round(intelligence_score, 1); inputs:
\* history, the terms of the score before the breakdown rounds them.)
ScoreRow(address, metrics) ==
    LET win_rate == OrZero(metrics.win_rate_global)
        sharpe == OrZero(metrics.sharpe_ratio)
        total_trades == metrics.total_trades
        total_pnl == 0
        consistency == Consistency(trades, address)
        avg_trade_size == IF total_trades > 0 THEN Abs(total_pnl) \div total_trades ELSE 0
        volume_score == Min(100, avg_trade_size \div 1000)
        recent_pnl == RecentPnl(trades, address)
        score == intelligence_score(win_rate, sharpe, consistency, volume_score, recent_pnl)
    IN  [address |-> address,
         intelligence_score |-> RoundHalfEven(score, 200),
         stars |-> Tier(score).stars,
         tier |-> Tier(score).tier,
         breakdown |-> [win_rate |-> RoundHalfEven(win_rate, 10), sharpe_ratio |-> sharpe,
                        consistency |-> RoundHalfEven(consistency, 10),
                        avg_trade_size |-> avg_trade_size, recent_pnl_7d |-> recent_pnl],
         total_trades |-> total_trades,
         exact |-> score,
         inputs |-> [win_rate |-> win_rate, sharpe |-> sharpe, consistency |-> consistency,
                     volume_score |-> volume_score, recent_pnl |-> recent_pnl]]

\* scores.sort(key=lambda x: x["intelligence_score"], reverse=True): rows of
\* equal score keep the order they had.
SortedUnchanged(rows) == rows

RECURSIVE Sorted(_)
Sorted(rows) ==
    IF rows = <<>> THEN <<>>
    ELSE LET head == Sorted(SubSeq(rows, 1, Len(rows) - 1))
             row == rows[Len(rows)]
             k == Cardinality({i \in 1..Len(head) : head[i].intelligence_score >= row.intelligence_score})
         IN  SubSeq(head, 1, k) \o <<row>> \o SubSeq(head, k + 1, Len(head))

\* cache["whales"], in the order of KNOWN_WHALES in which fetch_all_whales
\* gathered it
Whales == SelectSeq(WalletOrder, LAMBDA address : cache[address] # None)

RECURSIVE ScoreRows(_)
ScoreRows(whales) ==
    IF whales = <<>> THEN <<>>
    ELSE LET whale == cache[whales[1]][1]
         IN  (IF whale.error THEN <<>> ELSE <<ScoreRow(whales[1], whale.metrics)>>)
                 \o ScoreRows(Tail(whales))

UnchangedDiff == UNCHANGED <<KNOWN_WHALES, positions, orders, liquidation_warnings, db_pool,
                             liquidations, saved_state, task, sent, phase, ever_warned, last_seen,
                             restarted, telegram, scheduler, jobs>>

\* fetch_whale_data, line 504-538: the positions and the metrics of the
\* address go into its entry of the list (fetched: the exchange answered;
\* stored: no statement of calculate_wallet_metrics raised).  An entry with
\* "error" holds neither.
fetch_whale_data_metrics(address, current_positions, fetched, stored) ==
    /\ address \in KNOWN_WHALES
    /\ cache' = [cache EXCEPT ![address] =
                    Some(IF fetched
                         THEN [error |-> FALSE, positions |-> current_positions,
                               metrics |-> calculate_wallet_metrics(address, current_positions, stored)]
                         ELSE [error |-> TRUE, positions |-> <<>>, metrics |-> NoMetrics])]
    /\ UNCHANGED <<trades, response>>
    /\ UnchangedDiff

\* close_trade, line 281-297, for an open trade of the table
close_trade_update(wallet, token, pnl) ==
    /\ db_pool
    /\ OpenTradeExists(trades, wallet, token)
    /\ trades' = UpdateTrades(trades, wallet, token, 100, pnl)
    /\ UNCHANGED <<cache, response>>
    /\ UnchangedDiff

\* GET /api/ai/whale-scores with a cache that holds a list (the tables are
\* read as of one moment).  Without a pool the HTTPException of line 868 is
\* caught at line 987 and raised again with status 500.
get_whale_intelligence_scores ==
    /\ db_pool => Whales # <<>>
    /\ response' = IF db_pool
                   THEN Some([kind |-> "scores", whale_scores |-> Sorted(ScoreRows(Whales))])
                   ELSE Some([kind |-> "error", status_code |-> 500])
    /\ UNCHANGED <<trades, cache>>
    /\ UnchangedDiff

\* calculate_win_rate, the global function (no caller in main.py: it is
\* applied as it stands, its answer being the response); ok: no statement
\* raises; error: the answer carries the key "error"
calculate_win_rate(ok) ==
    /\ response' = Some(IF ~db_pool \/ ~ok
                        THEN [kind |-> "win_rate", global |-> 0, long |-> 0, short |-> 0,
                              total_trades |-> 0, error |-> db_pool]
                        ELSE [kind |-> "win_rate", error |-> FALSE,
                              global |-> WinRate(trades, Wallets, Sides, Some(0))[1],
                              long |-> WinRate(trades, Wallets, {"LONG"}, Some(0))[1],
                              short |-> WinRate(trades, Wallets, {"SHORT"}, Some(0))[1],
                              total_trades |-> Cardinality(ClosedWithPnl(trades, Wallets, Sides))])
    /\ UNCHANGED <<trades, cache>>
    /\ UnchangedDiff

\* calculate_sharpe_ratio, the global function.  sharpe_ratio: Some(number),
\* the key is in every answer; message: the answer carries "Precisa 30+
\* trades (n)"; trades_analyzed: None when the key is absent.
calculate_sharpe_ratio(ok) ==
    /\ LET results == Since(trades, ClosedWithPnl(trades, Wallets, Sides), 30)
       IN  response' = Some(IF ~db_pool \/ ~ok
                            THEN [kind |-> "sharpe", sharpe_ratio |-> Some(0), message |-> FALSE,
                                  trades_analyzed |-> None, error |-> db_pool]
                            ELSE IF Cardinality(results) < 30
                            THEN [kind |-> "sharpe", sharpe_ratio |-> Some(0), message |-> TRUE,
                                  trades_analyzed |-> None, error |-> FALSE]
                            ELSE [kind |-> "sharpe", sharpe_ratio |-> Some(Sharpe(Pnl(trades), results)),
                                  message |-> FALSE, trades_analyzed |-> Some(Cardinality(results)),
                                  error |-> FALSE])
    /\ UNCHANGED <<trades, cache>>
    /\ UnchangedDiff

\* ------------------------------------------- the callers of fetch_all_whales
\* fetch_whale_data, line 504-538: the entry the call returns for a status
\* 200 when nothing raises (the positions, and the metrics read from the
\* store before the diff), and the error entry.
ErrorData == [error |-> TRUE, positions |-> <<>>, metrics |-> NoMetrics]
WhaleData(address, answer) ==
    IF answer = None THEN ErrorData
    ELSE LET list == PosList(answer[1].positions)
             current_positions == [n \in 1..Len(list) |-> answer[1].positions[list[n]]]
         IN  [error |-> FALSE, positions |-> current_positions,
              metrics |-> calculate_wallet_metrics(address, current_positions, TRUE)]

\* A caller waiting for fetch_whale_data, or at line 546 for asyncio.gather:
\* the addresses (for fetch_all_whales in the order of KNOWN_WHALES), their
\* coroutines task[first], task[first + 1], ... and the entries these
\* return unless they raise.
Job(origin, whales, answer) ==
    [origin |-> origin, pc |-> "gather", first |-> Len(task) + 1, whales |-> whales,
     data |-> [n \in 1..Len(whales) |-> WhaleData(whales[n], answer[n])]]

Waiting(origins) == {j \in 1..Len(jobs) : jobs[j].pc = "gather" /\ jobs[j].origin \in origins}

\* variant: the caller goes on when the first coroutine has returned
GatheredFirst(job) == task[job.first].pc = "done"

\* line 546: asyncio.gather returns when every coroutine has returned
Gathered(job) == \A n \in 1..Len(job.whales) : task[job.first + n - 1].pc = "done"

\* the list gather returns, and the cache that holds it
Results(job) ==
    [n \in 1..Len(job.whales) |->
        IF task[job.first + n - 1].result = "error" THEN ErrorData ELSE job.data[n]]
Publish(job) ==
    [address \in Wallets |->
        IF \E n \in 1..Len(job.whales) : job.whales[n] = address
        THEN Some(Results(job)[CHOOSE n \in 1..Len(job.whales) : job.whales[n] = address])
        ELSE None]

\* A caller enters fetch_all_whales: the prices are fetched (line 543; a
\* failure is caught at line 122 and logged), the coroutines are created
\* and the caller waits for them.
Call(origin, answers) ==
    /\ Len(Tracked) > 0
    /\ Len(task) + Len(Tracked) <= MaxPolls
    /\ \E a \in [1..Len(Tracked) -> answers] :
         /\ task' = task \o [n \in 1..Len(Tracked) |->
                                fetch_whale_data(Len(task) + n, Tracked[n], origin, NextRun, a[n])]
         /\ jobs' = Append(jobs, Job(origin, Tracked, a))
    /\ sent' = None
    /\ UnchangedAlerts
    /\ UNCHANGED <<KNOWN_WHALES, db_pool, trades, liquidations, saved_state, restarted, cache, response,
                   telegram, scheduler>>

\* monitor_whales_job, line 552-556, run by the scheduler every 30 seconds
\* while it is running (line 1482-1491; one instance of the job at a time)
\* and once by startup_event (line 1497).
monitor_whales_job(origin, answers) ==
    /\ scheduler = "running"
    /\ origin = "scheduler" => Waiting({"scheduler"}) = {}
    /\ origin = "startup" => Len(task) = 0
    /\ Call(origin, answers)

\* monitor_whales_job, line 556-559: fetch_all_whales returns the list and
\* the job stores it in the cache.  (No coroutine of the list raises into
\* gather, fetch_whale_data catches every Exception at line 531; the except
\* of line 560 is for whatever else raises, and it returns as well.)
monitor_whales_job_return(j) ==
    /\ j \in Waiting({"startup", "scheduler"})
    /\ Gathered(jobs[j])
    /\ cache' = Publish(jobs[j])
    /\ jobs' = [jobs EXCEPT ![j].pc = "done"]
    /\ sent' = None
    /\ UnchangedAlerts
    /\ UNCHANGED <<KNOWN_WHALES, db_pool, trades, liquidations, saved_state, task, restarted, response,
                   telegram, scheduler>>

\* GET /api/ai/whale-scores with a cache that holds no list, line 870-873:
\* whales = await fetch_all_whales()
get_whale_intelligence_scores_fetch(answers) ==
    /\ scheduler # "exited"
    /\ db_pool
    /\ Whales = <<>>
    /\ Waiting({"scores"}) = {}
    /\ Call("scores", answers)

\* line 874-985: the list goes into the cache and the scores are computed
\* from it
get_whale_intelligence_scores_return(j) ==
    /\ j \in Waiting({"scores"})
    /\ Gathered(jobs[j])
    /\ UNCHANGED <<KNOWN_WHALES, db_pool, trades, liquidations, saved_state, task, restarted,
                   telegram, scheduler>>
    /\ cache' = Publish(jobs[j])
    /\ response' = Some([kind |-> "scores", whale_scores |-> (Sorted(ScoreRows(Whales)))'])
    /\ jobs' = [jobs EXCEPT ![j].pc = "done"]
    /\ sent' = None
    /\ UnchangedAlerts

\* The addresses a request may carry: the wallets stand for strings of 42
\* characters that start with "0x"; one string starts with "0x" and is
\* shorter, one has 42 characters and another start.
Short == "0xshort"
Unprefixed == "no0x42"
Requested == Wallets \cup {Short, Unprefixed}
StartsWith0x(address) == address \in Wallets \cup {Short}
Length42(address) == address \in Wallets \cup {Unprefixed}

\* line 627: not (not address.startswith("0x") or len(address) != 42)
ValidAddress(address) == ~(~StartsWith0x(address) \/ ~Length42(address))

\* add_whale, line 623-636, up to the first await of its fetch_whale_data:
\* an address that is malformed or tracked is refused with status 400,
\* another one is fetched and diffed.
add_whale(address, answers) ==
    /\ scheduler # "exited"
    /\ IF ~ValidAddress(address) \/ address \in KNOWN_WHALES
       THEN /\ response' = Some([kind |-> "error", status_code |-> 400])
            /\ UNCHANGED <<task, jobs>>
       ELSE /\ Len(task) < MaxPolls
            /\ Waiting({"add"}) = {}
            /\ \E a \in answers :
                 /\ task' = Append(task, fetch_whale_data(Len(task) + 1, address, "add", NextRun, a))
                 /\ jobs' = Append(jobs, Job("add", <<address>>, <<a>>))
            /\ response' = response
    /\ sent' = None
    /\ UnchangedAlerts
    /\ UNCHANGED <<KNOWN_WHALES, db_pool, trades, liquidations, saved_state, restarted, cache,
                   telegram, scheduler>>

\* add_whale, line 636-652: the error entry is refused with status 400,
\* else the address is tracked from now on (the cache is left as it is)
add_whale_return(j) ==
    /\ j \in Waiting({"add"})
    /\ Gathered(jobs[j])
    /\ IF Results(jobs[j])[1].error
       THEN /\ KNOWN_WHALES' = KNOWN_WHALES
            /\ response' = Some([kind |-> "error", status_code |-> 400])
       ELSE /\ KNOWN_WHALES' = KNOWN_WHALES \cup {jobs[j].whales[1]}
            /\ response' = Some([kind |-> "added", address |-> jobs[j].whales[1]])
    /\ jobs' = [jobs EXCEPT ![j].pc = "done"]
    /\ sent' = None
    /\ UnchangedAlerts
    /\ UNCHANGED <<db_pool, trades, liquidations, saved_state, task, restarted, cache, telegram, scheduler>>

\* shutdown_event, line 1500-1507, up to the await inside save_alert_state;
\* without a pool: line 1509-1515, nothing is awaited and the process exits.
shutdown_event ==
    /\ scheduler = "running"
    /\ \A t \in 1..Len(task) : task[t].origin # "shutdown"
    /\ db_pool => Len(task) < MaxPolls
    /\ IF db_pool
       THEN /\ task' = Append(task, [NoTask EXCEPT !.id = Len(task) + 1, !.origin = "shutdown",
                                                   !.pc = "save_down",
                                                   !.warn_copy = liquidation_warnings])
            /\ scheduler' = scheduler
       ELSE /\ task' = task
            /\ scheduler' = "exited"
    /\ sent' = None
    /\ UnchangedAlerts
    /\ UNCHANGED <<KNOWN_WHALES, db_pool, trades, liquidations, saved_state, restarted, cache, response,
                   telegram, jobs>>

\* shutdown_event, line 1507-1513: save_alert_state writes, the scheduler is
\* shut down and close_db waits for the pool to close.  No line waits for
\* the coroutines of a poll.
shutdown_event_save(t, oks) ==
    /\ At(t, "save_down")
    /\ \E ok \in oks : saved_state' = IF ok THEN DumpState(task[t].warn_copy) ELSE saved_state
    /\ scheduler' = "shutdown"
    /\ task' = [task EXCEPT ![t].pc = "close_db"]
    /\ sent' = None
    /\ UnchangedAlerts
    /\ UNCHANGED <<KNOWN_WHALES, db_pool, trades, liquidations, restarted, cache, response, telegram, jobs>>

\* shutdown_event, line 1513-1515: the pool is closed, the handler returns
\* and the process exits; the coroutines that have not returned are gone
\* where they stand.
shutdown_event_exit(t) ==
    /\ At(t, "close_db")
    /\ scheduler' = "exited"
    /\ task' = [task EXCEPT ![t] = [NoTask EXCEPT !.result = "ok"]]
    /\ sent' = None
    /\ UnchangedAlerts
    /\ UNCHANGED <<KNOWN_WHALES, db_pool, trades, liquidations, saved_state, restarted, cache, response,
                   telegram, jobs>>

\* One step of the diff of a poll
DiffStep(t, oks) ==
    \/ check_and_alert_positions(t)
    \/ save_open_trade_check(t, oks)
    \/ save_open_trade_insert(t, oks)
    \/ positions_resume(t)
    \/ close_trade(t, oks)
    \/ closed_resume(t)
    \/ save_alert_state_positions(t, oks)
    \/ orders_resume(t)
    \/ resolved_resume(t)
    \/ save_alert_state_orders(t, oks)

\* SpecCycle: the poll cycles of the scheduler's job.  The coroutines of a
\* cycle interleave at their awaits; a fetch may fail and an answer may
\* hold a null leverage.
\* (KNOWN_WHALES is what load_whales reads, line 61-87: the default list or
\* the file a delete_whale has written.)
InitCycle == KNOWN_WHALES \in {{"w1"}, Wallets} /\ Fresh /\ db_pool = TRUE

NextCycle ==
    \/ \E origin \in {"startup", "scheduler"} :
         monitor_whales_job(origin, Answers({Far, Near, NullLeverage}, Oids))
    \/ \E j \in 1..MaxPolls : monitor_whales_job_return(j)
    \/ \E t \in 1..MaxPolls : DiffStep(t, {TRUE})

SpecCycle == InitCycle /\ [][NextCycle]_vars

\* LiveCycle: the poll cycles as the scheduler and the event loop run
\* them.  A fetch may fail, an answer may hold a null leverage, a statement
\* of the store may raise inside its function, and the Telegram API answers,
\* refuses or drops the requests of the run.
InitLive == KNOWN_WHALES \in {{"w1"}, Wallets} /\ Constructed /\ telegram \in Telegram /\ db_pool = TRUE

TaskStep(t) == t \in InProgress /\ DiffStep(t, BOOLEAN)

NextLive ==
    \/ monitor_whales_job("startup", Answers({Far, NullLeverage}, {}))
    \/ monitor_whales_job("scheduler", Answers({Far, NullLeverage}, {}))
    \/ \E j \in 1..MaxPolls : monitor_whales_job_return(j)
    \/ \E t \in 1..MaxPolls : TaskStep(t)

\* The scheduler fires every 30 seconds (line 1482-1491), the event loop
\* resumes every coroutine whose await has returned, and every request
\* returns or times out (line 105, 184, 442).
Fairness ==
    /\ WF_vars(monitor_whales_job("scheduler", Answers({Far, NullLeverage}, {})))
    /\ WF_vars(\E j \in 1..MaxPolls : monitor_whales_job_return(j))
    /\ \A t \in 1..MaxPolls : WF_vars(TaskStep(t))

LiveCycle == InitLive /\ [][NextLive]_vars /\ Fairness

\* SpecScores: wallets are added, the scheduler polls them and the scores
\* are asked for, one coroutine of a poll at a time.  The process starts
\* with a list of whales that holds no address (whales_data.json after every
\* address was deleted): the cache holds no entry until a poll cycle has
\* run with a tracked address.
InitScores == KNOWN_WHALES = {} /\ Fresh /\ db_pool = TRUE

NextScores ==
    \/ /\ InProgress = {}
       /\ \E address \in Wallets : add_whale(address, Answers({Far, Near}, Oids))
    \/ \E j \in 1..MaxPolls : add_whale_return(j)
    \/ /\ InProgress = {}
       /\ monitor_whales_job("scheduler", Answers({Far, Near}, Oids))
    \/ \E j \in 1..MaxPolls : monitor_whales_job_return(j)
    \/ /\ InProgress = {}
       /\ get_whale_intelligence_scores_fetch(Answers({Far, Near}, Oids))
    \/ \E j \in 1..MaxPolls : get_whale_intelligence_scores_return(j)
    \/ /\ InProgress = {}
       /\ Waiting({"scores"}) = {}
       /\ get_whale_intelligence_scores
    \/ \E t \in 1..MaxPolls :
         /\ \A u \in InProgress : t <= u
         /\ DiffStep(t, {TRUE})

SpecScores == InitScores /\ [][NextScores]_vars

\* SpecAdd: POST /whales on its own, one request at a time, for every
\* address a request may carry; a fetch may fail and an answer may hold a
\* null leverage.
NextAdd ==
    \/ /\ InProgress = {}
       /\ \E address \in Requested : add_whale(address, Answers({Far, NullLeverage}, Oids))
    \/ \E j \in 1..MaxPolls : add_whale_return(j)
    \/ \E t \in 1..MaxPolls : t \in InProgress /\ DiffStep(t, {TRUE})

SpecAdd == InitScores /\ [][NextAdd]_vars

\* SpecShutdown: the poll cycles and the shutdown of the process.  The
\* coroutines of a poll run one after another and interleave with
\* shutdown_event at their awaits; once the pool is closing a statement of
\* the store is executed if it holds a connection and raises if not.
NextShutdown ==
    \/ /\ InProgress = {}
       /\ monitor_whales_job("scheduler", Answers({Far, Near}, Oids))
    \/ \E j \in 1..MaxPolls : scheduler # "exited" /\ monitor_whales_job_return(j)
    \/ shutdown_event
    \/ \E t \in 1..MaxPolls : shutdown_event_save(t, {TRUE})
    \/ \E t \in 1..MaxPolls : shutdown_event_exit(t)
    \/ \E t \in 1..MaxPolls :
         /\ scheduler # "exited"
         /\ \A u \in InProgress : task[u].origin = "scheduler" => t <= u
         /\ DiffStep(t, IF scheduler = "shutdown" THEN BOOLEAN ELSE {TRUE})

SpecShutdown == InitCycle /\ [][NextShutdown]_vars

\* ------------------------------------------------ the alert state's row
\* json.dumps / json.loads, database.py line 185 and 209: a dict is written
\* as the members of a JSON object and read back from them; a list stays a
\* list.  (The values of the members, numbers and strings that came out of
\* JSON, are written and read as they are.)
Members(d) == {[name |-> k, value |-> d[k]] : k \in DOMAIN d}
Dict(members) ==
    [k \in {m.name : m \in members} |-> (CHOOSE m \in members : m.name = k).value]

\* list(a set), database.py line 167: its elements once each, in any order
Listings(S) == {l \in UNION {[1..n -> S] : n \in {Cardinality(S)}} : {l[i] : i \in DOMAIN l} = S}

\* database.py line 164-169 and 185: json.dumps(state_to_save)
json_dumps(warnings_list) ==
    [positions |-> Members(positions), orders |-> Members(orders), liquidation_warnings |-> warnings_list]

\* database.py line 209-212: json.loads, and the list turned back into a set
json_loads(text) ==
    [positions |-> Dict(text.positions), orders |-> Dict(text.orders),
     liquidation_warnings |-> {text.liquidation_warnings[i] : i \in DOMAIN text.liquidation_warnings}]

\* variant: INSERT without ON CONFLICT
Insert(rows, state_key, state_data) ==
    Append(rows, [state_key |-> state_key, state_data |-> state_data])

\* database.py line 173-186: INSERT ... ON CONFLICT (state_key) DO UPDATE
\* (state_key is UNIQUE, line 120)
Upsert(rows, state_key, state_data) ==
    IF \E n \in 1..Len(rows) : rows[n].state_key = state_key
    THEN [n \in 1..Len(rows) |->
             IF rows[n].state_key = state_key THEN [rows[n] EXCEPT !.state_data = state_data] ELSE rows[n]]
    ELSE Append(rows, [state_key |-> state_key, state_data |-> state_data])

\* the table alert_state as the calls below have left it, the number of
\* calls of save_alert_state and the answer of load_alert_state
NoTable == [kind |-> "alert_state", rows |-> <<>>, saves |-> 0, loaded |-> None]
Table == IF response = None THEN NoTable ELSE response[1]

\* save_alert_state(alert_state), database.py line 154-189, with a pool and
\* no statement raising
save_alert_state ==
    /\ db_pool
    /\ Table.saves < MaxPolls
    /\ \E warnings_list \in Listings(liquidation_warnings) :
         response' = Some([Table EXCEPT !.rows = Upsert(@, "current_alert_state", json_dumps(warnings_list)),
                                        !.saves = @ + 1,
                                        !.loaded = None])
    /\ saved_state' = DumpState(liquidation_warnings)
    /\ sent' = None
    /\ UnchangedAlerts
    /\ UNCHANGED <<KNOWN_WHALES, db_pool, trades, liquidations, task, restarted, cache, telegram, scheduler, jobs>>

\* load_alert_state(), database.py line 191-222: SELECT state_data ... WHERE
\* state_key = $1 LIMIT 1; None without a row
load_alert_state_call ==
    /\ db_pool
    /\ Table.loaded = None
    /\ \E n \in 1..Len(Table.rows) :
         /\ Table.rows[n].state_key = "current_alert_state"
         /\ response' = Some([Table EXCEPT !.loaded = Some(json_loads(Table.rows[n].state_data))])
    /\ sent' = None
    /\ UnchangedAlerts
    /\ UNCHANGED <<KNOWN_WHALES, db_pool, trades, liquidations, saved_state, task, restarted, cache,
                   telegram, scheduler, jobs>>

\* SpecRoundTrip: save_alert_state and load_alert_state on their own, for
\* every alert state of the domain.
InitRoundTrip ==
    /\ KNOWN_WHALES = Wallets
    /\ positions \in UNION {[ks -> {Far, Near}] : ks \in SUBSET Keys}
    /\ orders \in UNION {[ks -> Oids] : ks \in SUBSET {Key(a, OidStr(o)) : a \in Wallets, o \in Oids}}
    /\ liquidation_warnings \in SUBSET Keys
    /\ db_pool = TRUE
    /\ trades = <<>>
    /\ liquidations = <<>>
    /\ saved_state = None
    /\ task = <<>>
    /\ sent = None
    /\ phase = [k \in Keys |-> IF k \in DOMAIN positions THEN "Open" ELSE "Absent"]
    /\ ever_warned = liquidation_warnings
    /\ last_seen = positions
    /\ restarted = FALSE
    /\ cache = [address \in Wallets |-> None]
    /\ response = None
    /\ telegram = "200"
    /\ scheduler = "running"
    /\ jobs = <<>>

NextRoundTrip == save_alert_state \/ load_alert_state_call

SpecRoundTrip == InitRoundTrip /\ [][NextRoundTrip]_vars

\* SpecOverlap: the diffs of one wallet with two open orders, started by the
\* scheduler's job and by GET /whales/{address} and interleaved at their
\* awaits.  The ids of the orders are strings, which line 402 compares as
\* it means to.
TwoOids == {OidOrder[n] : n \in {k \in 1..Len(OidOrder) : OidOrder[k].kind = "str"}}

InitOverlap == KNOWN_WHALES = {"w1"} /\ Fresh /\ db_pool = TRUE

NextOverlap ==
    \/ fetch_all_whales("scheduler", Answers({}, TwoOids))
    \/ get_whale("w1", Answers({}, TwoOids))
    \/ \E t \in 1..MaxPolls : t \in InProgress /\ DiffStep(t, {TRUE})

SpecOverlap == InitOverlap /\ [][NextOverlap]_vars

\* SpecMetrics: the metrics and the scores on their own.  The table starts
\* with a history of closed trades and an open trade per wallet; the
\* wallets are fetched, open trades close, and the metrics or the scores
\* are asked for; the window ends with the answer.
Trade(wallet, token, side, pnl, days) ==
    [wallet |-> wallet, token |-> token, status |-> "closed", side |-> side, size |-> 50000,
     entry_price |-> 100, exit_price |-> Some(100), pnl |-> Some(pnl), close_timestamp |-> Some(days)]

OpenTrade(wallet, token) ==
    [wallet |-> wallet, token |-> token, status |-> "open", side |-> "LONG", size |-> 50000,
     entry_price |-> 100, exit_price |-> None, pnl |-> None, close_timestamp |-> None]

\* n trades closed the given number of days ago, the first k with pnl a and
\* the others with pnl b, long and short in turn
History(wallet, n, k, a, b, days) ==
    [i \in 1..n |-> Trade(wallet, "BTC", IF i % 2 = 1 THEN "LONG" ELSE "SHORT",
                          IF i <= k THEN a ELSE b, days)]

\* pnl +10, -5, +3, -1
Example(wallet) ==
    <<Trade(wallet, "BTC", "LONG", 10, 1), Trade(wallet, "BTC", "SHORT", -5, 1),
      Trade(wallet, "BTC", "LONG", 3, 1), Trade(wallet, "BTC", "SHORT", -1, 1)>>

\* pnl +1, 0
Breakeven(wallet) ==
    <<Trade(wallet, "BTC", "LONG", 1, 1), Trade(wallet, "BTC", "SHORT", 0, 1)>>

\* one winning trade of pnl 9950 closed yesterday
NearTier(wallet) == <<Trade(wallet, "BTC", "LONG", 9950, 1)>>

Histories(wallet) ==
    {<<>>, Example(wallet), Breakeven(wallet), NearTier(wallet),
     History(wallet, 29, 27, 1, -1, 40),
     History(wallet, 29, 29, 2, 2, 1),
     History(wallet, 30, 30, 2, 2, 1),
     History(wallet, 30, 15, -2, -3, 1)}

Tables ==
    {h1 \o <<OpenTrade("w1", "BTC")>> \o h2 \o <<OpenTrade("w2", "BTC")>> :
        h1 \in Histories("w1"), h2 \in {<<>>, History("w2", 29, 27, 1, -1, 40)}}

Position(value, leverage) ==
    [positionValue |-> value, leverage |-> [kind |-> "dict", value |-> Some(leverage)]]

\* the position lists of a fetch: none, values 1000 and 1000 at leverage 2
\* and 5, a position of no value, a leverage of 0
Holdings(address) ==
    IF address = "w1"
    THEN {<<>>, <<Position(1000, 2), Position(1000, 5)>>, <<Position(0, 10)>>, <<Position(1000, 0)>>}
    ELSE {<<>>}

\* the outcomes of a fetch: <<fetched, stored>>
Fetches == {<<TRUE, TRUE>>, <<TRUE, FALSE>>, <<FALSE, TRUE>>}

InitMetrics ==
    /\ KNOWN_WHALES = Wallets
    /\ positions = Empty
    /\ orders = Empty
    /\ liquidation_warnings = {}
    /\ db_pool \in BOOLEAN
    /\ trades \in Tables
    /\ liquidations = <<>>
    /\ saved_state = None
    /\ task = <<>>
    /\ sent = None
    /\ phase = [k \in Keys |-> "Absent"]
    /\ ever_warned = {}
    /\ last_seen = Empty
    /\ restarted = FALSE
    /\ cache = [address \in Wallets |-> None]
    /\ response = None
    /\ telegram = "200"
    /\ scheduler = "running"
    /\ jobs = <<>>

NextMetrics ==
    /\ response = None
    /\ \/ \E address \in Wallets, fetch \in Fetches :
            \E current_positions \in Holdings(address) :
                fetch_whale_data_metrics(address, current_positions, fetch[1], fetch[2])
       \/ \E wallet \in Wallets : close_trade_update(wallet, "BTC", 1)
       \/ get_whale_intelligence_scores
       \/ \E ok \in BOOLEAN : calculate_win_rate(ok)
       \/ \E ok \in BOOLEAN : calculate_sharpe_ratio(ok)

SpecMetrics == InitMetrics /\ [][NextMetrics]_vars

\* ------------------------------------------------------------- properties
ClosedOf(t) == task[t].closed[1]
Closing == {t \in 1..Len(task) : task[t].closed # None}
OpenRows(address, coin) == OpenTrades(trades, address, coin)
\* the entries of the alert state that belong to an address
AlertsOf(address) ==
    <<[k \in {x \in DOMAIN positions : KeyAddress(x) = address} |-> positions[k]],
      [k \in {x \in DOMAIN orders : KeyAddress(x) = address} |-> orders[k]],
      {k \in liquidation_warnings : KeyAddress(k) = address}>>
\* the task whose code ran in the step
Acted(t) == t \in 1..Len(task) /\ task'[t] # task[t]

\* C1: a position that disappears while its key is in the warning set, with
\* a stored loss below -50%, is classified as a liquidation.
C1_AtRiskDeepLossIsLiquidation ==
    \A t \in Closing :
        (ClosedOf(t).in_set /\ LossBelow50(ClosedOf(t).position)) => ClosedOf(t).is_liquidation

\* C2: PositionOpened is never sent for a key whose last alert left it open
\* (no second Opened without a Closed or Liquidated in between).
C2_OpenedOncePerLifetime == \A k \in Keys : phase[k] # "OpenedTwice"

\* C3: no PositionAtRisk is sent for a key that is in the warning set, at any
\* distance, and a key leaves the set while its position stays stored only in
\* a step of the diff of a snapshot that shows it at a distance above 2%.
C3_Hysteresis ==
    [][\A k \in Keys :
          /\ (k \in liquidation_warnings /\ sent' # None /\ sent'[1].type = "PositionAtRisk")
                => sent'[1].key # k
          /\ (k \in liquidation_warnings /\ k \notin liquidation_warnings' /\ k \in DOMAIN positions')
                => \E t \in 1..Len(task) :
                      /\ Acted(t)
                      /\ task[t].address = KeyAddress(k)
                      /\ KeyName(k) \in DOMAIN task[t].snap.positions
                      /\ DistanceAbove2(task[t].snap.positions[KeyName(k)])]_vars

\* C3 happens: a snapshot at distance 1.5% has been diffed for a key that is
\* in the warning set, and the key is still in it.
C3_Witness ==
    \E t \in 1..Len(task) :
        /\ task[t].pc = "save_pos"
        /\ "BTC" \in DOMAIN task[t].snap.positions
        /\ task[t].snap.positions["BTC"] = Band
        /\ Key(task[t].address, "BTC") \in liquidation_warnings

\* C4: a position that was never in the warning set during its lifetime and
\* disappears with a stored loss below -50% is not classified as a
\* liquidation: no save_liquidation is called and no PositionLiquidated sent.
C4_NeverAtRiskIsClosed ==
    \A t \in Closing :
        (~ClosedOf(t).ever /\ LossBelow50(ClosedOf(t).position)) =>
            /\ ~ClosedOf(t).is_liquidation
            /\ task[t].pc \notin {"liq_insert", "liq_close"}
            /\ (sent # None /\ sent[1].task = t) => sent[1].type # "PositionLiquidated"

\* C4 happens: PositionClosed has just been sent for a position with a stored
\* loss of 90% that was never in the warning set.
C4_Witness ==
    \E t \in Closing :
        /\ ~ClosedOf(t).ever
        /\ LossBelow50(ClosedOf(t).position)
        /\ sent = Event("PositionClosed", ClosedOf(t).key, t)

\* C5: every key of the warning set is a key of the stored positions.
C5_WarningsAreStoredPositions == liquidation_warnings \subseteq DOMAIN positions

\* C6: the trades table holds at most one open row per wallet and instrument.
C6_OneOpenTradePerPair ==
    \A address \in Wallets, coin \in Coins : Cardinality(OpenRows(address, coin)) <= 1

\* C7: the position stored for a key is the one of the last poll that held
\* the key, and that one is the position a close is computed from.
C7_StoredIsLastSeen ==
    /\ InProgress = {} => \A k \in DOMAIN positions : positions[k] = last_seen[k]
    /\ \A t \in Closing : task[t].origin # "store" => ClosedOf(t).position = ClosedOf(t).last

\* C8: at most one run of the poll cycle is in progress.
C8_SingleFlight == Cardinality(RunsInProgress) <= 1

\* C9: a fetch that fails ends its call at once: the wallet's positions,
\* orders and warnings are untouched, nothing is sent, the wallet stays
\* tracked, and every run of the scheduler's job polls every tracked wallet.
C9_FailedFetchSkipsWallet ==
    [][/\ \A t \in 1..Len(task') :
             (task'[t].failed /\ (t > Len(task) \/ task'[t] # task[t])) =>
                 /\ task'[t].pc = "done"
                 /\ \A address \in Wallets :
                       task'[t].address = address => AlertsOf(address)' = AlertsOf(address)
                 /\ sent' = None
                 /\ KNOWN_WHALES' = KNOWN_WHALES
       /\ (Len(task') > Len(task) /\ task'[Len(task')].origin \in {"startup", "scheduler"}) =>
             {task'[t].address : t \in (Len(task) + 1)..Len(task')} = KNOWN_WHALES]_vars

\* C9 happens: a fetch of the scheduler's job failed for a wallet with a
\* stored position, and the next run of the job has polled the wallet again.
C9_Witness ==
    \E t \in 1..Len(task) :
        /\ task[t].failed
        /\ task[t].origin = "scheduler"
        /\ Key(task[t].address, "BTC") \in DOMAIN positions
        /\ \E u \in (t + 1)..Len(task) :
              /\ task[u].origin = "scheduler"
              /\ task[u].address = task[t].address
              /\ ~task[u].failed

C11_FailedWriteRetried ==
    \A t \in 1..Len(task) :
        (db_pool /\ task[t].pc = "save_pos" /\ ~task[t].raised) =>
            /\ \A coin \in DOMAIN task[t].snap.positions : OpenTradeExists(trades, task[t].address, coin)
            /\ KNOWN_WHALES = Wallets =>
                  \A coin \in Coins \ DOMAIN task[t].snap.positions :
                      ~OpenTradeExists(trades, task[t].address, coin)

\* C12: a missing or malformed field of a position does not abort the diff
\* of the wallet: every key that is stored gets its PositionOpened in the
\* same step, and no diff ends with the error entry.
C12_MalformedFieldKeepsDiff ==
    [][/\ \A k \in Keys :
             (k \notin DOMAIN positions /\ k \in DOMAIN positions') =>
                 (sent' # None /\ sent'[1].type = "PositionOpened" /\ sent'[1].key = k)
       /\ \A t \in 1..Len(task) : Acted(t) => task'[t].result # "error"]_vars

\* C13: when a poll has diffed the positions of a wallet, every stored key
\* of the wallet is an instrument the poll's snapshot holds with a size
\* that is not zero.
C13_StoredKeysHaveSize ==
    \A t \in 1..Len(task) :
        task[t].pc = "save_pos" =>
            \A coin \in Coins :
                Key(task[t].address, coin) \in DOMAIN positions =>
                    /\ coin \in DOMAIN task[t].snap.positions
                    /\ task[t].snap.positions[coin].szi # 0

\* the alert state in memory, as save_alert_state serialises it
Memory == Some([positions |-> positions, orders |-> orders, liquidation_warnings |-> liquidation_warnings])

\* C14: every write of the alert state row stores the alert state that is in
\* memory at the instant of the write, and a restart loads that row and
\* leaves the trades and the liquidations as they were written.
C14_PersistedIsMemory ==
    [][/\ saved_state' # saved_state => saved_state' = Memory
       /\ restarted' # restarted =>
             /\ trades' = trades
             /\ liquidations' = liquidations
             /\ saved_state' = saved_state
             /\ saved_state # None => Memory' = saved_state]_vars

\* the rows of the answer to a scores request
ScoresReturned ==
    IF response # None /\ response[1].kind = "scores" THEN response[1].whale_scores ELSE <<>>

\* C15: the composite score of every wallet of the list returned by
\* get_whale_intelligence_scores lies in [0, 100], before and after it is
\* rounded, whatever the wallet's win rate, ratio and trade history.
C15_ScoreInRange ==
    \A i \in 1..Len(ScoresReturned) :
        /\ ScoresReturned[i].intelligence_score \in 0..1000
        /\ ScoresReturned[i].exact \in 0..200000

\* the closed trades with a pnl of the trailing 30 days
Trailing(wallets) == Since(trades, ClosedWithPnl(trades, wallets, Sides), 30)
ZeroVariance(S) == \A m, n \in S : trades[m].pnl = trades[n].pnl

\* C16: the ratio is a number only with 30 or more closed trades with a pnl
\* in the trailing 30 days; with 29 or fewer the answer is an explicit
\* insufficient-data result and holds no number; with 30 or more trades of
\* zero variance it is 0.00.  Per wallet (the metrics of a fetch) and
\* globally (calculate_sharpe_ratio).
C16_SharpeNeedsThirtyTrades ==
    [][/\ \A address \in Wallets :
            (cache'[address] # cache[address] /\ cache'[address] # None) =>
                LET sharpe == cache'[address][1].metrics.sharpe_ratio
                IN  /\ Cardinality(Trailing({address})) < 30 => sharpe = None
                    /\ (sharpe # None /\ ZeroVariance(Trailing({address}))) => sharpe = Some(0)
       /\ (response' # response /\ response' # None /\ response'[1].kind = "sharpe") =>
            LET sharpe == response'[1].sharpe_ratio
            IN  /\ Cardinality(Trailing(Wallets)) < 30 => (sharpe = None /\ response'[1].message)
                /\ (sharpe # None /\ Cardinality(Trailing(Wallets)) >= 30
                        /\ ZeroVariance(Trailing(Wallets))) => sharpe = Some(0)]_vars

\* the win rates of an answer and the sides they are taken over
PerWalletRates == {<<"win_rate_global", Sides>>, <<"win_rate_long", {"LONG"}>>, <<"win_rate_short", {"SHORT"}>>}
GlobalRates == {<<"global", Sides>>, <<"long", {"LONG"}>>, <<"short", {"SHORT"}>>}
Wins(wallets, sides) == Cardinality({n \in ClosedWithPnl(trades, wallets, sides) : trades[n].pnl[1] > 0})
Total(wallets, sides) == Cardinality(ClosedWithPnl(trades, wallets, sides))
\* v hundredths is wins / total * 100 to the nearest hundredth
IsRate(v, wallets, sides) == 2 * Abs(v * Total(wallets, sides) - 10000 * Wins(wallets, sides)) <= Total(wallets, sides)
\* the pnl of the closed trades of the table are +10, -5, +3, -1
IsExample(wallets) ==
    LET S == ClosedWithPnl(trades, wallets, Sides)
    IN  /\ Cardinality(S) = 4
        /\ {trades[n].pnl[1] : n \in S} = {10, -5, 3, -1}

\* C17 as stated: each win rate (global, long, short) is wins / total x 100
\* over the closed trades with a pnl, a win being pnl > 0; the pnl +10, -5,
\* +3, -1 give 50.00; with total 0 the result is 0.  Per wallet (the metrics
\* of a fetch) and globally (calculate_win_rate).
C17_WinRateZeroWithoutData ==
    [][/\ \A address \in Wallets :
            (cache'[address] # cache[address] /\ cache'[address] # None /\ ~cache'[address][1].error
                /\ db_pool /\ ~cache'[address][1].metrics.error) =>
                \A r \in PerWalletRates :
                    LET v == cache'[address][1].metrics[r[1]]
                    IN  IF Total({address}, r[2]) > 0
                        THEN v # None /\ IsRate(v[1], {address}, r[2])
                        ELSE v = Some(0)
       /\ (response' # response /\ response' # None /\ response'[1].kind = "win_rate"
                /\ db_pool /\ ~response'[1].error) =>
            \A r \in GlobalRates :
                IF Total(Wallets, r[2]) > 0
                THEN IsRate(response'[1][r[1]], Wallets, r[2])
                ELSE response'[1][r[1]] = 0]_vars

\* C17, amended: each win rate is wins / total x 100 to 2 places over the
\* closed trades with a pnl, a win being pnl > 0 (the pnl +10, -5, +3, -1
\* give 50.00); with total 0 the rate of a wallet is None and the global one
\* is 0.0; without a pool or when a statement raises every rate of a wallet
\* is None and every global one 0.0.
C17_WinRate ==
    [][/\ \A address \in Wallets :
            (cache'[address] # cache[address] /\ cache'[address] # None /\ ~cache'[address][1].error) =>
                \A r \in PerWalletRates :
                    LET v == cache'[address][1].metrics[r[1]]
                    IN  /\ IF Total({address}, r[2]) > 0 /\ db_pool /\ ~cache'[address][1].metrics.error
                           THEN v # None /\ IsRate(v[1], {address}, r[2])
                           ELSE v = None
                        /\ (IsExample({address}) /\ r[2] = Sides /\ v # None) => v = Some(5000)
       /\ (response' # response /\ response' # None /\ response'[1].kind = "win_rate") =>
            \A r \in GlobalRates :
                LET v == response'[1][r[1]]
                IN  /\ IF Total(Wallets, r[2]) > 0 /\ db_pool /\ ~response'[1].error
                       THEN IsRate(v, Wallets, r[2])
                       ELSE v = 0
                    /\ (IsExample(Wallets) /\ r[2] = Sides /\ db_pool /\ ~response'[1].error) => v = 5000]_vars

\* w1 was fetched with the trades +10, -5, +3, -1 (50.00) and w2 with no
\* closed trade (None)
C17_Witness ==
    /\ IsExample({"w1"})
    /\ cache["w1"] # None /\ cache["w1"][1].metrics.win_rate_global = Some(5000)
    /\ Total({"w2"}, Sides) = 0
    /\ cache["w2"] # None /\ ~cache["w2"][1].error /\ ~cache["w2"][1].metrics.error
    /\ cache["w2"][1].metrics.win_rate_global = None

\* marginUsed = positionValue / leverage, positionValue itself when
\* leverage <= 0 (the values here are multiples of their leverage)
MarginUsed(pos) ==
    IF pos.leverage.value[1] > 0 THEN pos.positionValue \div pos.leverage.value[1] ELSE pos.positionValue
TotalMargin(ps) == Sum([i \in 1..Len(ps) |-> MarginUsed(ps[i])], 1..Len(ps))
TotalValue(ps) == Sum([i \in 1..Len(ps) |-> ps[i].positionValue], 1..Len(ps))
\* h hundredths is sum(marginUsed) / sum(positionValue) x 100 to the nearest
\* hundredth
IsHeat(h, ps) == 2 * Abs(h * TotalValue(ps) - 10000 * TotalMargin(ps)) <= TotalValue(ps)
\* the entries of the cache whose metrics were computed
Computed == {address \in Wallets : /\ cache[address] # None
                                   /\ ~cache[address][1].error
                                   /\ db_pool
                                   /\ ~cache[address][1].metrics.error}

\* C18 as stated: the portfolio heat of a wallet is sum(marginUsed) /
\* sum(positionValue) x 100 over its open positions, and it is 0 whenever the
\* total position value is 0, also when the wallet has no open position.
C18_HeatZeroWithoutPositions ==
    \A address \in Computed :
        LET ps == cache[address][1].positions
            heat == cache[address][1].metrics.portfolio_heat
        IN  IF TotalValue(ps) > 0
            THEN heat # None /\ IsHeat(heat[1], ps)
            ELSE heat = Some(0)

\* C18, amended: the portfolio heat of a wallet with open positions is
\* sum(marginUsed) / sum(positionValue) x 100 to 2 places (values 1000 and
\* 1000 at leverage 2 and 5 give 35.00) and 0 when their total value is 0;
\* the heat of a wallet without open positions is None.
C18_Heat ==
    \A address \in Computed :
        LET ps == cache[address][1].positions
            heat == cache[address][1].metrics.portfolio_heat
        IN  /\ IF ps = <<>> THEN heat = None
               ELSE IF TotalValue(ps) > 0 THEN heat # None /\ IsHeat(heat[1], ps)
               ELSE heat = Some(0)
            /\ ps = <<Position(1000, 2), Position(1000, 5)>> => heat = Some(3500)

\* w1 was fetched with the positions 1000 and 1000 at leverage 2 and 5
\* (35.00) and w2 without positions (None)
C18_Witness ==
    /\ {"w1", "w2"} \subseteq Computed
    /\ cache["w1"][1].positions = <<Position(1000, 2), Position(1000, 5)>>
    /\ cache["w1"][1].metrics.portfolio_heat = Some(3500)
    /\ cache["w2"][1].positions = <<>>
    /\ cache["w2"][1].metrics.portfolio_heat = None

\* the place of an address in the list of the cache
Place(address) == CHOOSE n \in 1..Len(WalletOrder) : WalletOrder[n] = address

\* C19 as stated: the rows returned by get_whale_intelligence_scores are
\* ordered by score descending, and rows of equal score by total trade count
\* descending.
C19_TiesByTradeCount ==
    \A i, j \in 1..Len(ScoresReturned) :
        i < j =>
            \/ ScoresReturned[i].intelligence_score > ScoresReturned[j].intelligence_score
            \/ /\ ScoresReturned[i].intelligence_score = ScoresReturned[j].intelligence_score
               /\ ScoresReturned[i].total_trades >= ScoresReturned[j].total_trades

\* C19, amended: the rows returned by get_whale_intelligence_scores are
\* ordered by reported score descending, and rows of equal reported score
\* keep the order their wallets have in the cached list.
C19_OrderedByScore ==
    \A i, j \in 1..Len(ScoresReturned) :
        i < j =>
            \/ ScoresReturned[i].intelligence_score > ScoresReturned[j].intelligence_score
            \/ /\ ScoresReturned[i].intelligence_score = ScoresReturned[j].intelligence_score
               /\ Place(ScoresReturned[i].address) < Place(ScoresReturned[j].address)

\* two rows of equal score were returned, the first with fewer trades
C19_Witness ==
    /\ Len(ScoresReturned) = 2
    /\ ScoresReturned[1].intelligence_score = ScoresReturned[2].intelligence_score
    /\ ScoresReturned[1].total_trades < ScoresReturned[2].total_trades

\* rows i and j of the answer differ in the win rate only, that of i being
\* the greater
OnlyWinRateGreater(i, j) ==
    LET a == ScoresReturned[i].inputs
        b == ScoresReturned[j].inputs
    IN  /\ a.win_rate > b.win_rate
        /\ a.sharpe = b.sharpe
        /\ a.consistency = b.consistency
        /\ a.volume_score = b.volume_score
        /\ a.recent_pnl = b.recent_pnl

\* C20 as stated: of two wallets that differ only in their win rate, the one
\* with the strictly greater win rate gets a strictly greater score, as
\* get_whale_intelligence_scores reports it.
C20_StrictlyGreaterReported ==
    \A i, j \in 1..Len(ScoresReturned) :
        OnlyWinRateGreater(i, j) =>
            ScoresReturned[i].intelligence_score > ScoresReturned[j].intelligence_score

\* C20, amended: of two wallets that differ only in their win rate, the one
\* with the strictly greater win rate gets a strictly greater score before
\* the rounding to 1 place, and a reported score that is greater or equal.
C20_Monotone ==
    \A i, j \in 1..Len(ScoresReturned) :
        OnlyWinRateGreater(i, j) =>
            /\ ScoresReturned[i].exact > ScoresReturned[j].exact
            /\ ScoresReturned[i].intelligence_score >= ScoresReturned[j].intelligence_score

\* two rows that differ only in their win rate were returned, the reported
\* score of the greater win rate being strictly greater
C20_Witness ==
    \E i, j \in 1..Len(ScoresReturned) :
        /\ OnlyWinRateGreater(i, j)
        /\ ScoresReturned[i].intelligence_score > ScoresReturned[j].intelligence_score

\* the polls whose diff of the positions is complete
Diffed == {t \in 1..Len(task) : task[t].pc \in {"save_pos", "ord_resume", "res_next", "save_ord"}}

\* C25: when a poll has diffed the positions of a wallet, no key of its
\* snapshot whose distance to the liquidation price is above 2% (100%
\* without a current price) is in the warning set, whatever the liquidation
\* price the snapshot reports, 0 included.
C25_FarKeyNotAtRisk ==
    \A t \in Diffed :
        \A coin \in DOMAIN task[t].snap.positions :
            DistanceAbove2(task[t].snap.positions[coin]) =>
                Key(task[t].address, coin) \notin liquidation_warnings

\* the keys of the orders a poll's snapshot holds
OrderKeys(tk) == {Key(tk.address, OidStr(o)) : o \in tk.snap.orders}

\* C26: in every step of a poll, OrderCreated is sent only for an order of
\* the snapshot whose key was not stored, OrderResolved only for a stored
\* key whose order the snapshot does not hold, and when the poll has diffed
\* its orders every order of its snapshot is stored.
C26_OrderDiff ==
    [][\A t \in 1..Len(task) :
          Acted(t) =>
              /\ (sent' # None /\ sent'[1].type = "OrderCreated") =>
                     /\ sent'[1].key \notin DOMAIN orders
                     /\ sent'[1].key \in OrderKeys(task[t])
              /\ (sent' # None /\ sent'[1].type = "OrderResolved") =>
                     /\ sent'[1].key \in DOMAIN orders
                     /\ sent'[1].key \notin OrderKeys(task[t])
              /\ (task[t].pc # "save_ord" /\ task'[t].pc \in {"save_ord", "done"}
                      /\ task'[t].result # "error") =>
                     OrderKeys(task[t]) \subseteq DOMAIN orders']_vars

\* C27: the coroutine of a poll that has started its diff returns only out
\* of the save_alert_state that ends check_and_alert_orders (without a pool:
\* out of that call, which returns at once).
C27_DiffEndsWithSave ==
    [][\A t \in 1..Len(task) :
          (Acted(t) /\ task[t].origin \in {"startup", "scheduler", "rest"} /\ task'[t].pc = "done") =>
              \/ task[t].pc = "save_ord"
              \/ ~db_pool /\ task'[t].result = "ok"]_vars

\* the alert of the step is one of task t and of the given types
Alerted(t, types) == sent' # None /\ sent'[1].task = t /\ sent'[1].type \in types

\* C22: an alert that Telegram refuses or drops does not stop the diff that
\* sends it: the step has changed the alert state as the event requires,
\* the request to the store for the event is made (before the alert for a
\* closed position, right after it for an opened one), and the coroutine
\* goes on with the next item of its loop.
C22_FailedAlertKeepsDiff ==
    [][\A t \in 1..Len(task) :
          (Acted(t) /\ telegram # "200" /\ sent' # None) =>
              /\ sent'[1].task = t
              /\ task'[t].undelivered
              /\ Alerted(t, {"PositionOpened"}) =>
                     /\ sent'[1].key \in DOMAIN positions'
                     /\ task'[t].pc = "open_check"
              /\ Alerted(t, {"PositionAtRisk"}) =>
                     /\ sent'[1].key \in liquidation_warnings'
                     /\ task'[t].pc = "pos_resume"
              /\ Alerted(t, {"PositionClosed", "PositionLiquidated"}) =>
                     /\ sent'[1].key \notin DOMAIN positions'
                     /\ task[t].pc \in {"close_update", "liq_insert", "liq_close"}
                     /\ task'[t].pc = "close_next"
              /\ Alerted(t, {"OrderCreated"}) =>
                     /\ sent'[1].key \in DOMAIN orders'
                     /\ task'[t].pc = "ord_resume"
              /\ Alerted(t, {"OrderResolved"}) =>
                     /\ sent'[1].key \notin DOMAIN orders'
                     /\ task'[t].pc = "res_next"]_vars

\* C22 happens: a poll whose alert of an opened position was not delivered
\* has written the trade of the position and has gone on to send the alert
\* of a created order.
C22_Witness ==
    \E t \in 1..Len(task) :
        /\ task[t].undelivered
        /\ sent = Event("OrderCreated", Key(task[t].address, "7"), t)
        /\ "BTC" \in DOMAIN task[t].snap.positions
        /\ OpenTradeExists(trades, task[t].address, "BTC")
        /\ phase[Key(task[t].address, "BTC")] = "Open"
        /\ Len(trades) = 1 /\ t = 1

ScoresStep ==
    \/ response' # response
    \/ \E t \in 1..Len(task) : task[t].origin = "scores" /\ Acted(t)
    \/ \E t \in (Len(task) + 1)..Len(task') : task'[t].origin = "scores"

\* C23: no step of a request for the scores, whatever the cache holds,
\* changes the stored positions, orders or warnings, the trades or the
\* liquidations, and none sends an alert.
C23_ScoringReadOnly ==
    [][ScoresStep =>
          /\ UNCHANGED <<positions, orders, liquidation_warnings, trades, liquidations>>
          /\ sent' = None]_vars

\* C24: when the process has exited after shutdown_event, no coroutine of a
\* poll is left where it stood, and the alert state row holds the alert
\* state that is in memory.
C24_ShutdownPersistsDiffs ==
    scheduler = "exited" => (InProgress = {} /\ saved_state = Memory)

\* C29: a step of the coroutine of one wallet changes no stored position,
\* order or warning of another address and no other coroutine, whether it
\* raises or not; and when a cycle starts, every tracked wallet whose fetch
\* succeeds has its diff started, whatever the fetches of the others do.
C29_WalletsIndependent ==
    [][/\ \A t \in 1..Len(task) :
             Acted(t) =>
                 /\ \A address \in Wallets \ {task[t].address} : AlertsOf(address)' = AlertsOf(address)
                 /\ \A u \in 1..Len(task) \ {t} : task'[u] = task[u]
       /\ \A j \in (Len(jobs) + 1)..Len(jobs') :
             \A n \in 1..Len(jobs'[j].whales) :
                 LET tk == task'[jobs'[j].first + n - 1]
                 IN  /\ tk.address = jobs'[j].whales[n]
                     /\ tk.failed \/ tk.pc = "positions"]_vars

\* C29 happens: in a cycle of two wallets the diff of w1 has raised on a null
\* leverage and returned the error entry, and the diff of w2 has stored its
\* position and sent PositionOpened after that.
C29_Witness ==
    /\ Len(jobs) = 1
    /\ jobs[1].whales = <<"w1", "w2">>
    /\ task[1].result = "error"
    /\ ~task[1].failed
    /\ Key("w1", "BTC") \in DOMAIN positions
    /\ sent = Event("PositionOpened", Key("w2", "BTC"), 2)

\* the coroutines of a caller of fetch_all_whales
TasksOf(job) == {job.first + n - 1 : n \in 1..Len(job.whales)}
\* a coroutine of the cycle has returned the error entry (its fetch failed
\* or its diff raised)
HasError(j) == j \in 1..Len(jobs) /\ \E t \in TasksOf(jobs[j]) : task[t].result = "error"
\* the caller has its list
Done(j) == j \in 1..Len(jobs) /\ jobs[j].pc = "done"
\* the bound leaves room for another cycle
Room == scheduler = "running" /\ Len(Tracked) > 0 /\ Len(task) + Len(Tracked) <= MaxPolls

\* a cycle in which a coroutine failed has not returned yet
FailedWaiting == \E j \in Waiting({"startup", "scheduler"}) : HasError(j)
\* a coroutine of the latest cycle failed, and the scheduler has not started
\* the next cycle although the bound leaves room for it
FailedLast == Len(jobs) > 0 /\ HasError(Len(jobs)) /\ Room

\* C21: a poll cycle in which a fetch failed, a diff raised, a statement of
\* the store raised or a notification was not delivered does not stay where
\* it is: monitor_whales_job returns (again and again no cycle with a
\* failure is left waiting), and the scheduler starts the next cycle after
\* it (again and again the latest cycle is not a failed one with its
\* successor still to start), as long as the bound on the polls leaves room
\* for one.
C21_PollingContinues == []<>(~FailedWaiting) /\ []<>(~FailedLast)

\* C21 happens: the diff of the first cycle raised, the cycle has returned
\* and the scheduler has started the next one.
C21_Witness ==
    /\ Len(jobs) = 2
    /\ jobs[1].pc = "done"
    /\ task[1].result = "error"
    /\ ~task[1].failed
    /\ jobs[2].origin = "scheduler"
    /\ jobs[2].pc = "gather"

\* C30: every cycle that has started returns (again and again no cycle is
\* left waiting for its coroutines); it returns when each of its coroutines
\* has returned, and the cache then holds the entry of each of its wallets,
\* the error entry for a coroutine that failed; and every coroutine that has
\* not returned can take its next step, whatever the others do.
C30_CycleCompletes ==
    /\ []<>(Waiting({"startup", "scheduler"}) = {})
    /\ [][\A j \in 1..Len(jobs) :
             (jobs[j].pc = "gather" /\ jobs'[j].pc = "done") =>
                 /\ \A t \in TasksOf(jobs[j]) : task[t].pc = "done"
                 /\ \A n \in 1..Len(jobs[j].whales) :
                       /\ cache'[jobs[j].whales[n]] # None
                       /\ cache'[jobs[j].whales[n]][1].error
                             = (task[jobs[j].first + n - 1].result = "error")]_vars
    /\ [](\A t \in 1..MaxPolls : t \in InProgress => ENABLED TaskStep(t))

\* C30 happens: a cycle of two wallets has returned, one coroutine with the
\* error entry and one with the entry of its wallet, and the cache holds
\* both.
C30_Witness ==
    /\ Len(jobs) = 1
    /\ jobs[1].pc = "done"
    /\ jobs[1].whales = <<"w1", "w2">>
    /\ cache["w1"] # None /\ cache["w1"][1].error
    /\ cache["w2"] # None /\ ~cache["w2"][1].error
    /\ Key("w2", "BTC") \in DOMAIN positions

\* the tier and the stars of the range that holds a score in tenths
TierOfReported(tenths) ==
    IF tenths >= 850 THEN [stars |-> 5, tier |-> "S-Tier"]
    ELSE IF tenths >= 750 THEN [stars |-> 4, tier |-> "A-Tier"]
    ELSE IF tenths >= 650 THEN [stars |-> 3, tier |-> "B-Tier"]
    ELSE IF tenths >= 500 THEN [stars |-> 2, tier |-> "C-Tier"]
    ELSE [stars |-> 1, tier |-> "D-Tier"]

\* the rows of the answer of GET /api/ai/whale-scores
ScoresAnswered ==
    IF response # None /\ response[1].kind = "scores"
    THEN {response[1].whale_scores[n] : n \in 1..Len(response[1].whale_scores)}
    ELSE {}

\* C31: the tier and the stars of every row of the answer are those of the
\* range that holds the score the row reports, a score on a boundary being
\* of the higher tier.
C31_TierOfReportedScore ==
    \A row \in ScoresAnswered :
        /\ row.tier = TierOfReported(row.intelligence_score).tier
        /\ row.stars = TierOfReported(row.intelligence_score).stars

\* C32: the volume component of every row of the answer is
\* min(100, avg / 100000 * 100), avg being the average size of the closed
\* trades of the wallet that its metrics count; so that a wallet with trades
\* of nonzero size has a nonzero volume component.  (Multiplied out: the
\* component times 1000 times the number of trades is the smaller of
\* 100000 times that number and the sum of the sizes.)
C32_VolumeComponent ==
    \A row \in ScoresAnswered :
        LET S == ClosedWithPnl(trades, {row.address}, Sides)
            n == Cardinality(S)
        IN  n = row.total_trades =>
                row.inputs.volume_score * 1000 * n
                    = Min(100000 * n, Sum([k \in DOMAIN trades |-> trades[k].size], S))

\* C33: whenever no diff is in progress and no call of the store has
\* failed, the pairs (wallet, instrument) with an open trade row are the keys
\* of openPositions, however the diffs of a wallet have overlapped.  (Stated
\* for the runs with a store in which no wallet has been deleted.)
C33_TradesMatchPositions ==
    (/\ InProgress = {}
     /\ db_pool
     /\ KNOWN_WHALES = Wallets
     /\ \A t \in 1..Len(task) : ~task[t].raised) =>
        \A k \in Keys : k \in DOMAIN positions <=> OpenTradeExists(trades, KeyAddress(k), KeyName(k))

\* C34: every key of openPositions, of openOrders and of the warning set
\* belongs to an address of KNOWN_WHALES, in every reachable state: after
\* delete_whale no key of the address is left, with or without a poll of the
\* address in flight, and GET /whales/{address} adds no key of an address
\* that is not tracked.
C34_KeysOfTrackedWallets ==
    \A k \in DOMAIN positions \cup DOMAIN orders \cup liquidation_warnings :
        KeyAddress(k) \in KNOWN_WHALES

\* C35: no diff raises on the alert state it shares with another diff of
\* the wallet: a coroutine returns the error entry only when its fetch
\* failed (a diff that raises, on popping a key another diff has removed,
\* returns it too and does not reach its save of the alert state).
C35_OverlappingDiffsDoNotRaise ==
    \A t \in 1..Len(task) : task[t].result = "error" => task[t].failed

\* C36: every key of openPositions has had its PositionOpened alert in its
\* current lifetime (no process is restarted here, no key is loaded from
\* the stored row): the alerts sent say that the position is open.
C36_StoredKeyWasOpened ==
    \A k \in DOMAIN positions : phase[k] # "Absent"

AlertState == <<positions, orders, liquidation_warnings>>
\* the request is refused in the step
Refused == response' # response /\ response'[1].kind = "error"

\* C38: a request that add_whale refuses (a malformed address, a tracked
\* one, a fetch that returns the error entry) leaves KNOWN_WHALES, the file
\* written from it and the alert state as they were: neither the step that
\* refuses changes them nor the step in which the request's fetch comes to
\* return the error entry; a malformed address is always refused; and a
\* request that is accepted adds its address and no other.
C38_AddWhaleRejects ==
    [][/\ Refused => (KNOWN_WHALES' = KNOWN_WHALES /\ AlertState' = AlertState)
       /\ \A t \in 1..Len(task) :
             (task[t].origin = "add" /\ task[t].result # "error" /\ task'[t].result = "error") =>
                 (KNOWN_WHALES' = KNOWN_WHALES /\ AlertState' = AlertState)
       /\ KNOWN_WHALES' \subseteq Wallets
       /\ KNOWN_WHALES' # KNOWN_WHALES =>
             /\ response'[1].kind = "added"
             /\ response'[1].address \notin KNOWN_WHALES
             /\ KNOWN_WHALES' = KNOWN_WHALES \cup {response'[1].address}]_vars

====
